---- MODULE Spec2Model ----
(***************************************************************************)
(* Model of the SimpleEvals backend (otron-io/simpleevals-be):             *)
(*   - the model registry (src/src/lib/models.js),                         *)
(*   - the in-memory evaluationsStore, the Supabase "evaluations" table,   *)
(*     getModelResponse / evaluateResponse, the evaluateSet handler, the   *)
(*     manuallyEvaluateResponse handler, getEvaluationSet, and the         *)
(*     verifyAuth / requireAuth middleware with the routes that use them   *)
(*     (src/src/controllers/mvpController.js).                             *)
(*                                                                         *)
(* JavaScript values are modelled as strings: "null", "undefined", "true", *)
(* "false" and ordinary text.  A JavaScript string that the code builds    *)
(* from pieces (a template literal) is the sequence of its pieces.  An     *)
(* async handler is one action per stretch of code between two awaits.     *)
(* Objects of the store are held by reference: `heap` maps addresses to    *)
(* objects and `store` maps ids to addresses.                              *)
(***************************************************************************)
EXTENDS Integers, Sequences, FiniteSets, TLC

\* ------------------------------------------------------------------ bounds
MaxSets == 1        \* ids evaluationsStore.generateId can hand out
MaxRows == 2        \* rows the evaluations table can hold
MaxQuestions == 2   \* Question entries one record can hold
MaxModels == 2      \* length of a request's model list
MaxRequests == 2    \* requests served in one behaviour

\* ------------------------------------------------------------------ values
None == "null"
Undefined == "undefined"
JsTrue == "true"
JsFalse == "false"

Truthy(v) == v \notin {None, Undefined, JsFalse, ""}

Users == {"userA", "userB"}
Identities == Users \cup {None}

TransientIds == {<<"t", i>> : i \in 1..MaxSets}
UuidIds == {<<"u", i>> : i \in 1..MaxRows}
Ids == TransientIds \cup UuidIds
NoId == <<"none", 0>>

\* uuidRegex.test(id): generateId yields base-36 text without hyphens, the
\* table's ids are UUIDs.
IsUuidFormat(id) == id[1] = "u"

\* ---------------------------------------------------------------- registry
AVAILABLE_MODELS ==
    [gpt4o   |-> [slug |-> "openai/gpt-4.1", display |-> "GPT-4.1"],
     gpt41   |-> [slug |-> "openai/gpt-4.1", display |-> "GPT-4.1"],
     claude3 |-> [slug |-> "anthropic/claude-3.7-sonnet", display |-> "Claude 3.7"],
     gemini  |-> [slug |-> "google/gemini-2.5-pro-preview", display |-> "Gemini 2.5"]]

\* Keys every JavaScript object inherits: AVAILABLE_MODELS[name] is truthy for
\* them, and has neither slug nor display.
ObjectPrototypeKeys == {"constructor", "toString"}

getOpenRouterSlug(name) ==
    IF name \in DOMAIN AVAILABLE_MODELS THEN AVAILABLE_MODELS[name].slug
    ELSE IF name \in ObjectPrototypeKeys THEN Undefined
    ELSE None

getDisplayName(name) ==
    IF name \in DOMAIN AVAILABLE_MODELS THEN AVAILABLE_MODELS[name].display
    ELSE IF name \in ObjectPrototypeKeys THEN Undefined
    ELSE name

\* ------------------------------------------------------------------ inputs
\* Entries of a request's questions array.  The handler never looks into a
\* question's text, so the k-th entry of the n-th request carries a text of its
\* own, or no text at all: `question` is then undefined after destructuring.
QuestionEntry(n, k, hasText) ==
    [question |-> IF hasText THEN <<"question", n, k>> ELSE <<Undefined>>,
     referenceAnswer |-> <<"answer", n, k>>]

QuestionLists(n) ==
    UNION {{[k \in 1..len |-> QuestionEntry(n, k, texts[k])] : texts \in [1..len -> BOOLEAN]} :
              len \in 0..MaxQuestions}

\* Short ids a request may list: a registered one and an unknown one.
ModelIds == {"claude3", "mystery"}

SeqsUpTo(S, n) == UNION {[1..k -> S] : k \in 0..n}

\* A chat completion's message content, as a sequence of characters.
RawAnswers == {<<" ", "4", " ">>}

\* What a failed upstream call throws.
UpstreamErrors ==
    {[message |-> "Request failed with status code 502",
      inner |-> Undefined, nested |-> "Provider returned error"]}

\* What JSON.parse yields for the judge's content.
JudgeBodies == {[is_correct |-> JsTrue, reasoning |-> "Matches the reference."]}

\* Milliseconds between the two Date.now() readings around a call.
ResponderLatency == 2
JudgeLatency == 1

\* ------------------------------------------------------------------- state
VARIABLES
    heap,     \* address -> object of the process (an evaluation set)
    store,    \* evaluationsStore.items: id -> address, 0 when absent
    db,       \* the Supabase evaluations table: UUID -> row
    req,      \* per request slot: the request being served, or the last one
    served,   \* number of requests begun
    dbLast,   \* the last write the table received (history)
    verdicts  \* the manual verdicts answered 200, latest per address (history)

vars == <<heap, store, db, req, served, dbLast, verdicts>>

Slots == {1, 2}
Addrs == 1..(MaxSets + MaxRows + Cardinality(Slots))

NoObj ==
    [id |-> NoId, user_id |-> None, questions |-> <<>>, supabaseId |-> NoId,
     evaluate_automatically |-> Undefined]

NoRow ==
    [present |-> FALSE, user_id |-> None, questions |-> <<>>,
     evaluate_automatically |-> Undefined]

NoEvaluation ==
    [is_correct |-> Undefined, reasoning |-> Undefined, evaluation_type |-> Undefined,
     evaluated_at |-> Undefined, evaluated_by |-> Undefined]

NoWrite == [op |-> "none", key |-> NoId, by |-> "none", hadRemoteId |-> FALSE]

\* A request slot at rest.
Idle ==
    [kind |-> "none", pc |-> "idle", user |-> None, status |-> 0,
     \* evaluateSet
     hasQuestions |-> FALSE, hasModels |-> FALSE,
     questions |-> <<>>, models |-> <<>>, auto |-> Undefined, key |-> NoId,
     qi |-> 0, mi |-> 0, results |-> <<>>, content |-> <<>>,
     obj |-> 0, body |-> NoObj, isNew |-> FALSE, prior |-> 0,
     responderCalls |-> 0, judgeCalls |-> 0, upstreamRequests |-> 0,
     upstreamFailures |-> 0,
     \* manuallyEvaluateResponse
     questionIndex |-> 0, modelName |-> Undefined, isCorrect |-> Undefined,
     reasoning |-> Undefined, storedInSupabase |-> FALSE, payload |-> <<>>,
     resultIndex |-> 0, updateKey |-> NoId, evaluation |-> NoEvaluation,
     supabaseId |-> NoId,
     \* the middleware: the route's guard, the Authorization header, how the
     \* verification settled, and the calls counted (next of verifyAuth, remote
     \* verifications, runs of the route's handler, answers of requireAuth)
     guard |-> "none", header |-> [bearer |-> FALSE, long |-> FALSE, owner |-> None],
     settled |-> "none", nexts |-> 0, remoteCalls |-> 0, handlerRuns |-> 0,
     responses |-> 0,
     \* the key of the query in flight on the table, NoId when there is none
     eq |-> NoId,
     \* what the request met on its way (history): the writes that failed, what
     \* the table answered its lookup, and the store that resolved its id
     writeFailures |-> 0, probe |-> "none", via |-> "none"]

Free(p) == req[p].pc \in {"idle", "done"}

Init ==
    /\ heap = [a \in Addrs |-> NoObj]
    /\ store = [i \in Ids |-> 0]
    /\ db = [u \in UuidIds |-> NoRow]
    /\ req = [p \in Slots |-> Idle]
    /\ served = 0
    /\ dbLast = NoWrite
    /\ verdicts = {}

\* ----------------------------------------------------------------- helpers
\* Whether a question's text is a string (undefined is not).
IsText(v) == v # <<Undefined>>

Min(S) == CHOOSE x \in S : \A y \in S : x <= y

FreeAddrs == {a \in Addrs : heap[a] = NoObj}
FreeTransientIds == {i \in 1..MaxSets : store[<<"t", i>>] = 0}
FreeUuids == {i \in 1..MaxRows : ~db[<<"u", i>>].present}

\* Objects no id of the store and no request in flight refers to are gone.
Collect(h, s, r) ==
    [a \in Addrs |->
        IF \/ \E i \in Ids : s[i] = a
           \/ \E p \in Slots : r[p].pc \notin {"idle", "done"} /\ r[p].obj = a
        THEN h[a] ELSE NoObj]

\* String.prototype.trim on a sequence of characters.
RECURSIVE TrimLeft(_)
TrimLeft(s) == IF s # <<>> /\ Head(s) = " " THEN TrimLeft(Tail(s)) ELSE s

RECURSIVE TrimRight(_)
TrimRight(s) ==
    IF s # <<>> /\ s[Len(s)] = " " THEN TrimRight(SubSeq(s, 1, Len(s) - 1)) ELSE s

Trim(s) == TrimRight(TrimLeft(s))

\* ------------------------------------------------------- verifyAuth (auth)
\* Authorization headers: none, a bearer token shorter than 20 characters, a
\* token of a user, a long token nobody owns.
AuthHeaders ==
    {[bearer |-> FALSE, long |-> FALSE, owner |-> None],
     [bearer |-> TRUE, long |-> FALSE, owner |-> None],
     [bearer |-> TRUE, long |-> TRUE, owner |-> None]}
    \cup {[bearer |-> TRUE, long |-> TRUE, owner |-> u] : u \in Users}

\* What awaiting supabase.auth.getUser against the timeout yields.
AuthOutcomes == {"answered", "failed", "timeout"}

\* Variant: a verification that trusts the token when the check failed.
verifyAuth_trusting(header, outcome) ==
    IF ~header.bearer THEN None
    ELSE IF ~header.long THEN None
    ELSE IF outcome = "timeout" THEN None
    ELSE header.owner

verifyAuth(header, outcome) ==
    IF ~header.bearer THEN None
    ELSE IF ~header.long THEN None
    ELSE IF outcome # "answered" THEN None
    ELSE header.owner

\* Variant: a guard that lets every request through.
requireAuth_open(user) == TRUE

\* requireAuth: the request goes on to its handler only with an identity;
\* without one it is answered 401.
requireAuth(user) == Truthy(user)

\* ------------------------------------------------- getModelResponse, judge
ResponderOutcomes ==
    {[ok |-> TRUE, content |-> c, error |-> e] : c \in RawAnswers, e \in UpstreamErrors}
    \cup {[ok |-> FALSE, content |-> <<>>, error |-> e] : e \in UpstreamErrors}

\* Variant: the SDK's own message preferred to the provider's.
ErrorMessage_inner(error) ==
    IF Truthy(error.inner) THEN error.inner
    ELSE IF Truthy(error.nested) THEN error.nested
    ELSE error.message

ErrorMessage(error) ==
    IF Truthy(error.nested) THEN error.nested
    ELSE IF Truthy(error.inner) THEN error.inner
    ELSE error.message

NotSupported(modelName) ==
    <<"Model ", modelName, " not supported via OpenRouter in this configuration.">>

ErrorResponse(modelName, error) ==
    <<"Error getting response from ", modelName, " via OpenRouter: ", ErrorMessage(error)>>

\* Whether getModelResponse reaches openRouterClient.chat.completions.create.
CallsUpstream(modelName) == Truthy(getOpenRouterSlug(modelName))

\* Variant: a responder that repeats a request once.
ResponderRequests_retry(modelName) == IF CallsUpstream(modelName) THEN 2 ELSE 0

\* Upstream requests one getModelResponse invocation issues: the single create
\* call of the try block, never repeated.
ResponderRequests(modelName) == IF CallsUpstream(modelName) THEN 1 ELSE 0

getModelResponse(modelName, outcome) ==
    IF ~CallsUpstream(modelName) THEN NotSupported(modelName)
    ELSE IF outcome.ok THEN Trim(outcome.content)
    ELSE ErrorResponse(modelName, outcome.error)

\* Variant: a judge that passes what it could not evaluate.
JudgeFallback_lenient == [is_correct |-> JsTrue, reasoning |-> "Error during evaluation."]

JudgeFallback == [is_correct |-> JsFalse, reasoning |-> "Error during evaluation."]

\* Lines 87-116: the template, as the pieces of text around its three
\* placeholders.
evaluatorPromptTemplate ==
    <<"You are a precise and objective evaluator ... [QUESTION] ",
      "{question}",
      " [REFERENCE ANSWER] ",
      "{reference_answer}",
      " [MODEL RESPONSE] ",
      "{model_response}",
      " Evaluate whether the model response correctly answers the question ...">>

\* The position of the first occurrence of a piece in a text, 0 when absent.
IndexOf(text, piece) ==
    LET at == {i \in 1..Len(text) : text[i] = piece}
    IN  IF at = {} THEN 0 ELSE Min(at)

\* The replacement String.prototype.replace inserts for a string pattern: $$
\* is a dollar sign, $& the text matched, $' the text after the match and
\* everything else itself (the pattern for the text before the match, which
\* works alike, is not among the pieces of the texts drawn).
RECURSIVE Expand(_, _, _)
Expand(replacement, matched, after) ==
    IF replacement = <<>> THEN <<>>
    ELSE LET c == Head(replacement)
             rest == Expand(Tail(replacement), matched, after)
         IN  IF c = "$$" THEN <<"$">> \o rest
             ELSE IF c = "$&" THEN <<matched>> \o rest
             ELSE IF c = "$'" THEN after \o rest
             ELSE <<c>> \o rest

\* String.prototype.replace with a string pattern: the first occurrence only.
Replace(text, pattern, replacement) ==
    LET i == IndexOf(text, pattern)
    IN  IF i = 0 THEN text
        ELSE LET before == SubSeq(text, 1, i - 1)
                 after == SubSeq(text, i + 1, Len(text))
             IN  before \o Expand(replacement, pattern, after) \o after

\* Lines 170-173: the prompt.
FillTemplate(question, referenceAnswer, modelResponse) ==
    Replace(Replace(Replace(evaluatorPromptTemplate, "{question}", question),
                    "{reference_answer}", referenceAnswer),
            "{model_response}", modelResponse)

\* Variant: a judge without the catch.
evaluateResponse_rethrow(outcome) == outcome.body

JudgeOutcomes ==
    {[ok |-> TRUE, body |-> b] : b \in JudgeBodies}
    \cup {[ok |-> FALSE, body |-> [is_correct |-> Undefined, reasoning |-> Undefined]]}

evaluateResponse(outcome) == IF outcome.ok THEN outcome.body ELSE JudgeFallback

\* -------------------------------------------------------------- evaluateSet
AutomaticEvaluation(evaluationResult) ==
    [is_correct |-> evaluationResult.is_correct,
     reasoning |-> evaluationResult.reasoning,
     evaluation_type |-> "automatic",
     evaluated_at |-> "now",
     evaluated_by |-> Undefined]

PendingEvaluation ==
    [is_correct |-> None, reasoning |-> None, evaluation_type |-> "pending_manual",
     evaluated_at |-> None, evaluated_by |-> None]

\* Variant: a Result labelled with the short id.
AutomaticResult_shortId(modelName, content, evaluationResult, responseTime, evalTime) ==
    [model |-> modelName,
     response |-> content,
     evaluation |-> AutomaticEvaluation(evaluationResult),
     timings |-> [responseTime |-> responseTime, evaluationTime |-> evalTime,
                  totalTime |-> responseTime + evalTime]]

AutomaticResult(modelName, content, evaluationResult, responseTime, evalTime) ==
    [model |-> getDisplayName(modelName),
     response |-> content,
     evaluation |-> AutomaticEvaluation(evaluationResult),
     timings |-> [responseTime |-> responseTime, evaluationTime |-> evalTime,
                  totalTime |-> responseTime + evalTime]]

\* Variant: a pending Result that counts a judge call.
PendingResult_judged(modelName, content, responseTime) ==
    [model |-> getDisplayName(modelName),
     response |-> content,
     evaluation |-> PendingEvaluation,
     timings |-> [responseTime |-> responseTime, evaluationTime |-> JudgeLatency,
                  totalTime |-> responseTime + JudgeLatency]]

PendingResult(modelName, content, responseTime) ==
    [model |-> getDisplayName(modelName),
     response |-> content,
     evaluation |-> PendingEvaluation,
     timings |-> [responseTime |-> responseTime, evaluationTime |-> 0,
                  totalTime |-> responseTime]]

\* evaluateAutomatically !== false
IsAutomatic(evaluateAutomatically) == evaluateAutomatically # JsFalse

\* The entry evaluationsStore.addQuestion pushes.
QuestionData(entry, results, models) ==
    [question |-> entry.question, referenceAnswer |-> entry.referenceAnswer,
     results |-> results, models |-> {models[i] : i \in 1..Len(models)}]

\* Variant: a store that puts a new question first.
addQuestion_unshift(h, a, questionData) ==
    [h EXCEPT ![a].questions = <<questionData>> \o @]

addQuestion(h, a, questionData) ==
    [h EXCEPT ![a].questions = Append(@, questionData)]

\* evaluationsStore.create: a fresh id, questions defaulted to [].
create(id, user, evaluateAutomatically) ==
    [id |-> id, user_id |-> user, questions |-> <<>>, supabaseId |-> NoId,
     evaluate_automatically |-> IF IsAutomatic(evaluateAutomatically) THEN JsTrue ELSE JsFalse]

\* prepareEvaluationForSupabase and the insertData of saveEvaluationSetToSupabase.
InsertData(evaluationSet) ==
    [present |-> TRUE,
     user_id |-> IF Truthy(evaluationSet.user_id) THEN evaluationSet.user_id ELSE None,
     questions |-> evaluationSet.questions,
     evaluate_automatically |->
        IF evaluationSet.evaluate_automatically # JsFalse THEN JsTrue ELSE JsFalse]

\* The request as it answers 200: what it was sent, what it did and the answer.
Respond(r, status, body) ==
    [r EXCEPT !.pc = "done", !.status = status, !.body = body, !.obj = 0,
              !.results = <<>>, !.content = <<>>, !.payload = <<>>, !.qi = 0, !.mi = 0]

\* The request as it answers an error: its kind, the status, for a rejected
\* body the two arrays it was judged by, and the set it had reached (history).
Reject(r, status) ==
    [Idle EXCEPT !.kind = r.kind, !.pc = "done", !.status = status,
                 !.key = r.key, !.isNew = r.isNew, !.prior = r.prior,
                 !.hasQuestions = r.hasQuestions, !.hasModels = r.hasModels,
                 !.questions = IF status = 404 THEN <<>> ELSE r.questions,
                 !.models = IF status = 404 THEN <<>> ELSE r.models,
                 !.responderCalls = r.responderCalls, !.judgeCalls = r.judgeCalls,
                 !.upstreamRequests = r.upstreamRequests,
                 !.upstreamFailures = r.upstreamFailures]

\* The loop head for question k: destructure the entry and log its first 30
\* characters, which throws when `question` is no string.
EnterQuestion(r, k) ==
    IF ~IsText(r.questions[k].question)
    THEN Reject(r, 500)
    ELSE [r EXCEPT !.qi = k, !.mi = 1, !.results = <<>>, !.pc = "responder"]

\* Lines 1070-1119: validation, the set, and the head of the first iteration.
EvaluateSetBegin(p, user, body) ==
    /\ Free(p)
    /\ served' = served + 1
    /\ LET r0 == [Idle EXCEPT !.kind = "evaluateSet", !.user = user,
                              !.hasQuestions = body.hasQuestions,
                              !.hasModels = body.hasModels,
                              !.questions = body.questions, !.models = body.models,
                              !.auto = IF IsAutomatic(body.evaluateAutomatically)
                                       THEN JsTrue ELSE JsFalse]
       IN  IF ~body.hasQuestions \/ ~body.hasModels
           THEN \* questions.length / modelNamesToEvaluate.join throw in the log line
                /\ req' = [req EXCEPT ![p] = Reject(r0, 500)]
                /\ UNCHANGED <<heap, store>>
           ELSE IF body.questions = <<>> \/ body.models = <<>>
           THEN /\ req' = [req EXCEPT ![p] = Reject(r0, 400)]
                /\ UNCHANGED <<heap, store>>
           ELSE IF body.setId # NoId
           THEN IF store[body.setId] = 0
                THEN /\ req' = [req EXCEPT ![p] = Reject(r0, 404)]
                     /\ UNCHANGED <<heap, store>>
                ELSE /\ Len(heap[store[body.setId]].questions) + Len(body.questions)
                            <= MaxQuestions
                     /\ req' = [req EXCEPT ![p] =
                            EnterQuestion(
                                [r0 EXCEPT !.key = body.setId,
                                           !.prior = Len(heap[store[body.setId]].questions)],
                                1)]
                     /\ UNCHANGED <<heap, store>>
           ELSE /\ FreeTransientIds # {}
                /\ FreeAddrs # {}
                /\ LET id == <<"t", Min(FreeTransientIds)>>
                       a == Min(FreeAddrs)
                   IN  /\ heap' = [heap EXCEPT ![a] =
                                      create(id, user, body.evaluateAutomatically)]
                       /\ store' = [store EXCEPT ![id] = a]
                       /\ req' = [req EXCEPT ![p] =
                              EnterQuestion([r0 EXCEPT !.key = id, !.isNew = TRUE], 1)]
    /\ UNCHANGED <<db, dbLast, verdicts>>

\* After a Result is pushed: the next model, or addQuestion and the next
\* question, or the end of the loop (updatedSet, the user id, the insert issued).
Push(p, r, result) ==
    LET results == Append(r.results, result)
        a == store[r.key]
    IN  IF r.mi < Len(r.models)
        THEN /\ req' = [req EXCEPT ![p] = [r EXCEPT !.results = results, !.mi = @ + 1,
                                                    !.pc = "responder"]]
             /\ UNCHANGED <<heap, store>>
        ELSE LET h1 == addQuestion(heap, a,
                          QuestionData(r.questions[r.qi], results, r.models))
             IN  IF r.qi < Len(r.questions)
                 THEN LET r1 == EnterQuestion([r EXCEPT !.results = results], r.qi + 1)
                      IN  /\ req' = [req EXCEPT ![p] = r1]
                          /\ heap' = h1
                          /\ UNCHANGED store
                 ELSE LET h2 == IF Truthy(r.user) /\ ~Truthy(h1[a].user_id)
                                THEN [h1 EXCEPT ![a].user_id = r.user]
                                ELSE h1
                      IN  /\ heap' = h2
                          /\ req' = [req EXCEPT ![p] =
                                 [r EXCEPT !.results = results, !.obj = a,
                                           !.payload = <<InsertData(h2[a])>>,
                                           !.pc = "save"]]
                          /\ UNCHANGED store

\* Lines 1121-1130 and 1157-1176: getModelResponse returns.
EvaluateSetResponder(p, outcome) ==
    /\ req[p].kind = "evaluateSet"
    /\ req[p].pc = "responder"
    /\ LET r == req[p]
            responseTime == ResponderLatency
            modelName == r.models[r.mi]
            content == getModelResponse(modelName, outcome)
            r1 == [r EXCEPT !.responderCalls = @ + 1,
                            !.upstreamRequests = @ + ResponderRequests(modelName),
                            !.upstreamFailures =
                                @ + IF CallsUpstream(modelName) /\ ~outcome.ok
                                    THEN 1 ELSE 0,
                            !.content = content]
        IN  IF IsAutomatic(r.auto)
            THEN /\ req' = [req EXCEPT ![p] = [r1 EXCEPT !.pc = "judge"]]
                 /\ UNCHANGED <<heap, store>>
            ELSE Push(p, r1, PendingResult(modelName, content, responseTime))
    /\ UNCHANGED <<db, dbLast, served, verdicts>>

\* Lines 1132-1156: evaluateResponse returns.
EvaluateSetJudge(p, outcome) ==
    /\ req[p].kind = "evaluateSet"
    /\ req[p].pc = "judge"
    /\ LET r == req[p]
            evalTime == JudgeLatency
            r1 == [r EXCEPT !.judgeCalls = @ + 1, !.upstreamRequests = @ + 1,
                            !.upstreamFailures = @ + IF outcome.ok THEN 0 ELSE 1]
        IN  Push(p, r1, AutomaticResult(r.models[r.mi], r.content,
                                        evaluateResponse(outcome), ResponderLatency, evalTime))
    /\ UNCHANGED <<db, dbLast, served, verdicts>>

\* Lines 1213-1223: the insert returns, or throws and is swallowed.
EvaluateSetSave(p) ==
    /\ req[p].kind = "evaluateSet"
    /\ req[p].pc = "save"
    /\ LET r == req[p]
       IN  \/ /\ FreeUuids # {}
              /\ LET supabaseId == <<"u", Min(FreeUuids)>>
                     h1 == [heap EXCEPT ![r.obj].supabaseId = supabaseId]
                     r1 == Respond(r, 200, h1[r.obj])
                     q1 == [req EXCEPT ![p] = r1]
                 IN  /\ db' = [db EXCEPT ![supabaseId] = r.payload[1]]
                     /\ dbLast' = [op |-> "insert", key |-> supabaseId, by |-> "evaluateSet",
                                   hadRemoteId |-> heap[r.obj].supabaseId # NoId]
                     /\ req' = q1
                     /\ heap' = Collect(h1, store, q1)
           \/ /\ LET r1 == Respond([r EXCEPT !.writeFailures = @ + 1], 200, heap[r.obj])
                     q1 == [req EXCEPT ![p] = r1]
                 IN  /\ req' = q1
                     /\ heap' = Collect(heap, store, q1)
              /\ UNCHANGED <<db, dbLast>>
    /\ UNCHANGED <<store, served, verdicts>>

\* -------------------------------------------------- manuallyEvaluateResponse
\* Variant: a patch that drops the reasoning it was sent.
ManualEvaluation_noReasoning(isCorrect, reasoning, user) ==
    [is_correct |-> isCorrect,
     reasoning |-> "Manually evaluated by user.",
     evaluation_type |-> "manual",
     evaluated_by |-> IF Truthy(user) THEN user ELSE None,
     evaluated_at |-> "now"]

\* Line 666: the acting identity and the record's owner are both set and differ.
OwnerMismatch(user, evaluationSet) ==
    Truthy(user) /\ Truthy(evaluationSet.user_id) /\ user # evaluationSet.user_id

\* Lines 690-696: the evaluation a manual patch writes.
ManualEvaluation(isCorrect, reasoning, user) ==
    [is_correct |-> isCorrect,
     reasoning |-> IF Truthy(reasoning) THEN reasoning ELSE "Manually evaluated by user.",
     evaluation_type |-> "manual",
     evaluated_by |-> IF Truthy(user) THEN user ELSE None,
     evaluated_at |-> "now"]

\* The object `select *` yields for a row.
FromRow(id, row) ==
    [id |-> id, user_id |-> row.user_id, questions |-> row.questions,
     supabaseId |-> NoId, evaluate_automatically |-> row.evaluate_automatically]

\* The request as the patch handler answers an error.
RejectPatch(r, status) ==
    [Idle EXCEPT !.kind = r.kind, !.pc = "done", !.status = status, !.user = r.user,
                 !.key = r.key, !.questionIndex = r.questionIndex,
                 !.modelName = r.modelName, !.isCorrect = r.isCorrect,
                 !.reasoning = r.reasoning, !.writeFailures = r.writeFailures,
                 !.probe = r.probe, !.via = r.via]

\* The verdict a patch leaves at its address.
Verdict(r) ==
    [id |-> r.key, questionIndex |-> r.questionIndex, modelName |-> r.modelName,
     is_correct |-> r.isCorrect,
     reasoning |-> IF Truthy(r.reasoning) THEN r.reasoning
                   ELSE "Manually evaluated by user.",
     followed |-> FALSE]

SameAddress(v, r) ==
    v.id = r.key /\ v.questionIndex = r.questionIndex /\ v.modelName = r.modelName

\* History: a patch that writes supersedes the verdict at its address, and for
\* a UUID-shaped id it follows the other verdicts of its set.
Superseded(r) ==
    {[v EXCEPT !.followed = @ \/ (v.id = r.key /\ IsUuidFormat(r.key))] :
        v \in {w \in verdicts : ~SameAddress(w, r)}}

\* The request as the patch handler answers 200 (lines 719-723 and 798-801).
RespondPatch(r, h, supabaseId) ==
    [Idle EXCEPT !.kind = r.kind, !.pc = "done", !.status = 200, !.user = r.user,
                 !.key = r.key, !.questionIndex = r.questionIndex,
                 !.modelName = r.modelName, !.isCorrect = r.isCorrect,
                 !.reasoning = r.reasoning,
                 !.evaluation =
                     h[r.obj].questions[r.questionIndex + 1].results[r.resultIndex].evaluation,
                 !.supabaseId = supabaseId, !.writeFailures = r.writeFailures,
                 !.probe = r.probe, !.via = r.via]

\* Whether the table holds a row under a key; its keys are UUIDs.
RowPresent(k) == k \in UuidIds /\ db[k].present

\* Variant: an existence check that queries whatever id it is given.
QueryKey_any(id) == id

\* Lines 344-359: the key checkEvaluationInSupabase queries the table with;
\* an id that is not UUID-shaped is answered null without a query.
QueryKey(id) == IF IsUuidFormat(id) THEN id ELSE NoId

\* Lines 1305-1319 (requireAuth on the route) and 611-626: the identity, the
\* required fields, and the existence check issued.
ManualEvalBegin(p, user, body) ==
    /\ Free(p)
    /\ served' = served + 1
    /\ LET r0 == [Idle EXCEPT !.kind = "manualEval", !.user = user,
                              !.key = body.evaluationId,
                              !.questionIndex = body.questionIndex,
                              !.modelName = body.modelName,
                              !.isCorrect = body.isCorrect,
                              !.reasoning = body.reasoning]
       IN  IF ~requireAuth(user)
           THEN req' = [req EXCEPT ![p] = RejectPatch(r0, 401)]
           ELSE IF \/ body.evaluationId = NoId
                   \/ ~body.hasQuestionIndex
                   \/ ~Truthy(body.modelName)
                   \/ body.isCorrect = Undefined
           THEN req' = [req EXCEPT ![p] = RejectPatch(r0, 400)]
           ELSE req' = [req EXCEPT ![p] =
                           [r0 EXCEPT !.pc = "check", !.eq = QueryKey(body.evaluationId)]]
    /\ UNCHANGED <<heap, store, db, dbLast, verdicts>>

\* Variant: a handler that stores the record it loaded before it checks it.
Refuse_stored(p, r, status, h, a) ==
    LET q1 == [req EXCEPT ![p] = RejectPatch(r, status)]
        s1 == [store EXCEPT ![r.key] = a]
    IN  /\ req' = q1
        /\ store' = s1
        /\ heap' = Collect(h, s1, q1)
        /\ UNCHANGED verdicts

\* Lines 666-687: the early returns on the record loaded (held at address a
\* of h), before anything is written.
Refuse(p, r, status, h, a) ==
    /\ req' = [req EXCEPT ![p] = RejectPatch(r, status)]
    /\ UNCHANGED <<heap, store, verdicts>>

\* Variant: the last Result with the model name.
FindModelResult_last(results, modelName) ==
    LET matches == {j \in 1..Len(results) : results[j].model = modelName}
    IN  IF matches = {} THEN 0 ELSE CHOOSE j \in matches : \A i \in matches : i <= j

\* Line 681: `question.results.find(r => r.model === modelName)`, as the index
\* of the Result found, 0 for undefined.
FindModelResult(results, modelName) ==
    LET matches == {j \in 1..Len(results) : results[j].model = modelName}
    IN  IF matches = {} THEN 0 ELSE Min(matches)

\* Lines 665-699 and the write each branch of 705-796 issues: the owner check,
\* the address, the patch, items.set, and the payload of the write.
ManualLoad(p, r, h, a, stored) ==
    LET evaluationSet == h[a]
        k == r.questionIndex + 1
    IN  IF OwnerMismatch(r.user, evaluationSet)
        THEN Refuse(p, r, 403, h, a)
        ELSE IF k > Len(evaluationSet.questions)
        THEN Refuse(p, r, 404, h, a)
        ELSE LET results == evaluationSet.questions[k].results
                 matches == {j \in 1..Len(results) : results[j].model = r.modelName}
             IN  IF matches = {}
                 THEN Refuse(p, r, 404, h, a)
                 ELSE LET j == FindModelResult(results, r.modelName)
                          h1 == [h EXCEPT ![a].questions[k].results[j].evaluation =
                                    ManualEvaluation(r.isCorrect, r.reasoning, r.user)]
                          s1 == [store EXCEPT ![r.key] = a]
                          r1 == [r EXCEPT !.obj = a, !.resultIndex = j, !.eq = NoId,
                                          !.storedInSupabase = stored]
                          r2 == IF ~IsUuidFormat(r.key)
                                THEN [r1 EXCEPT !.pc = "insertNew",
                                                !.payload = <<InsertData(h1[a])>>]
                                ELSE IF stored
                                THEN [r1 EXCEPT !.pc = "update", !.updateKey = r.key,
                                                !.eq = r.key,
                                                !.payload = <<h1[a].questions>>]
                                ELSE IF h1[a].supabaseId = NoId
                                THEN [r1 EXCEPT !.pc = "insertLate",
                                                !.payload = <<InsertData(h1[a])>>]
                                ELSE [r1 EXCEPT !.pc = "update",
                                                !.updateKey = h1[a].supabaseId,
                                                !.eq = h1[a].supabaseId,
                                                !.payload = <<h1[a].questions>>]
                          q1 == [req EXCEPT ![p] = r2]
                      IN  /\ req' = q1
                          /\ store' = s1
                          /\ heap' = Collect(h1, s1, q1)
                          /\ verdicts' = Superseded(r)

\* Lines 342-378 and 626-663: checkEvaluationInSupabase returns.
CheckOutcomes == {"data", "rls", "null"}

\* Variant: a handler that prefers the copy it holds to the row found.
LoadsFromTable_never(supabaseRecord) == FALSE

\* Line 631: `if (supabaseRecord)`.
LoadsFromTable(supabaseRecord) == supabaseRecord # "null"

\* What the table answered a lookup, as recorded on the request.
Probed(outcome) == IF outcome = "null" THEN "nothing" ELSE "found"

ManualEvalCheck(p, outcome) ==
    /\ req[p].kind = "manualEval"
    /\ req[p].pc = "check"
    /\ req[p].eq = NoId => outcome = "null"
    /\ outcome # "null" => RowPresent(req[p].eq)
    /\ LET r == [req[p] EXCEPT !.probe = Probed(outcome), !.eq = NoId]
       IN  IF LoadsFromTable(outcome)
           THEN /\ req' = [req EXCEPT ![p] =
                           [r EXCEPT !.pc = "fetch", !.eq = r.key, !.via = "persistent"]]
                /\ UNCHANGED <<heap, store, verdicts>>
           ELSE LET r1 == [r EXCEPT !.via = "transient"]
                IN  IF store[r.key] = 0
                    THEN /\ req' = [req EXCEPT ![p] = RejectPatch(r1, 404)]
                         /\ UNCHANGED <<heap, store, verdicts>>
                    ELSE ManualLoad(p, r1, heap, store[r.key], FALSE)
    /\ UNCHANGED <<db, dbLast, served>>

\* Lines 631-651: `select *` returns.
ManualEvalFetch(p, ok) ==
    /\ req[p].kind = "manualEval"
    /\ req[p].pc = "fetch"
    /\ LET r == req[p]
       IN  IF ~ok
           THEN /\ req' = [req EXCEPT ![p] = RejectPatch(r, 500)]
                /\ UNCHANGED <<heap, store, verdicts>>
           ELSE /\ FreeAddrs # {}
                /\ LET a == Min(FreeAddrs)
                   IN  ManualLoad(p, r, [heap EXCEPT ![a] = FromRow(r.key, db[r.key])],
                                  a, TRUE)
    /\ UNCHANGED <<db, dbLast, served>>

\* Variant: a handler that writes back the questions it sent with the insert,
\* as they were before the await.
InsertReturns_snapshot(p, r, withId) ==
    /\ FreeUuids # {}
    /\ LET supabaseId == <<"u", Min(FreeUuids)>>
           h1 == [heap EXCEPT ![r.obj].supabaseId = supabaseId,
                              ![r.obj].questions = r.payload[1].questions]
           s1 == [store EXCEPT ![r.key] = r.obj]
           q1 == [req EXCEPT ![p] =
                     RespondPatch(r, h1, IF withId THEN supabaseId ELSE NoId)]
       IN  /\ db' = [db EXCEPT ![supabaseId] = r.payload[1]]
           /\ dbLast' = [op |-> "insert", key |-> supabaseId, by |-> "manualEval",
                         hadRemoteId |-> heap[r.obj].supabaseId # NoId]
           /\ req' = q1
           /\ store' = s1
           /\ heap' = Collect(h1, s1, q1)
           /\ verdicts' = Superseded(r) \cup {Verdict(r)}

\* The row an insert issued with `payload` creates, and what the handler does
\* with the id it returns (lines 715-716 and 767-768).
InsertReturns(p, r, withId) ==
    /\ FreeUuids # {}
    /\ LET supabaseId == <<"u", Min(FreeUuids)>>
           h1 == [heap EXCEPT ![r.obj].supabaseId = supabaseId]
           s1 == [store EXCEPT ![r.key] = r.obj]
           q1 == [req EXCEPT ![p] =
                     RespondPatch(r, h1, IF withId THEN supabaseId ELSE NoId)]
       IN  /\ db' = [db EXCEPT ![supabaseId] = r.payload[1]]
           /\ dbLast' = [op |-> "insert", key |-> supabaseId, by |-> "manualEval",
                         hadRemoteId |-> heap[r.obj].supabaseId # NoId]
           /\ req' = q1
           /\ store' = s1
           /\ heap' = Collect(h1, s1, q1)
           /\ verdicts' = Superseded(r) \cup {Verdict(r)}

\* Variant: a handler that lets a failed write reach its outer catch.
Answer_rethrow(p, r) ==
    /\ req' = [req EXCEPT ![p] = RejectPatch(r, IF r.writeFailures > 0 THEN 500 ELSE 200)]
    /\ UNCHANGED <<heap, store, verdicts>>

\* The handler answers 200 after a write that failed, or after an update.
Answer(p, r) ==
    LET q1 == [req EXCEPT ![p] = RespondPatch(r, heap, NoId)]
    IN  /\ req' = q1
        /\ heap' = Collect(heap, store, q1)
        /\ verdicts' = Superseded(r) \cup {Verdict(r)}
        /\ UNCHANGED store

\* Lines 705-728: the insert of the non-UUID branch returns; when it throws,
\* the handler falls through to lines 758-796.
ManualEvalInsertNew(p, ok) ==
    /\ req[p].kind = "manualEval"
    /\ req[p].pc = "insertNew"
    /\ LET r == req[p]
           evaluationSet == heap[r.obj]
       IN  IF ok
           THEN InsertReturns(p, r, TRUE)
           ELSE /\ req' = [req EXCEPT ![p] =
                       IF evaluationSet.supabaseId = NoId
                       THEN [r EXCEPT !.pc = "insertLate", !.writeFailures = @ + 1,
                                      !.payload = <<InsertData(evaluationSet)>>]
                       ELSE [r EXCEPT !.pc = "update", !.writeFailures = @ + 1,
                                      !.updateKey = evaluationSet.supabaseId,
                                      !.eq = evaluationSet.supabaseId,
                                      !.payload = <<evaluationSet.questions>>]]
                /\ UNCHANGED <<heap, store, db, dbLast, verdicts>>
    /\ UNCHANGED served

\* Lines 761-768: the insert of a record without supabaseId returns.
ManualEvalInsertLate(p, ok) ==
    /\ req[p].kind = "manualEval"
    /\ req[p].pc = "insertLate"
    /\ LET r == req[p]
       IN  IF ok
           THEN InsertReturns(p, r, FALSE)
           ELSE /\ Answer(p, [r EXCEPT !.writeFailures = @ + 1])
                /\ UNCHANGED <<db, dbLast>>
    /\ UNCHANGED served

\* Lines 740-757 and 777-791: the update of the questions column returns.
ManualEvalUpdate(p, ok) ==
    /\ req[p].kind = "manualEval"
    /\ req[p].pc = "update"
    /\ LET r == req[p]
       IN  IF ok
           THEN /\ Answer(p, r)
                /\ db' = [db EXCEPT ![r.updateKey].questions =
                             IF db[r.updateKey].present THEN r.payload[1] ELSE @]
                /\ dbLast' = [op |-> "update", key |-> r.updateKey, by |-> "manualEval",
                              hadRemoteId |-> heap[r.obj].supabaseId # NoId]
           ELSE /\ Answer(p, [r EXCEPT !.writeFailures = @ + 1])
                /\ UNCHANGED <<db, dbLast>>
    /\ UNCHANGED served

\* ---------------------------------------------------------- getEvaluationSet
\* Lines 1001-1017 and 1059: GET /sets/:id without the debug parameter. The
\* identity verifyAuth resolved (line 1357) is kept on the request; the handler
\* does not read it.
getEvaluationSet(p, user, id) ==
    /\ Free(p)
    /\ served' = served + 1
    /\ req' = [req EXCEPT ![p] =
           IF store[id] = 0
           THEN [Idle EXCEPT !.kind = "getSet", !.pc = "done", !.status = 404,
                             !.user = user, !.key = id, !.via = "transient"]
           ELSE [Idle EXCEPT !.kind = "getSet", !.pc = "done", !.status = 200,
                             !.user = user, !.key = id, !.via = "transient",
                             !.body = heap[store[id]]]]
    /\ UNCHANGED <<heap, store, db, dbLast, verdicts>>

\* Lines 1001-1022: GET /sets/:id?debug=true, up to the existence check issued.
getEvaluationSetDebug(p, user, id) ==
    /\ Free(p)
    /\ served' = served + 1
    /\ LET r0 == [Idle EXCEPT !.kind = "getSet", !.key = id, !.via = "transient"]
           q1 == [req EXCEPT ![p] =
                     IF store[id] = 0
                     THEN [r0 EXCEPT !.pc = "done", !.status = 404]
                     ELSE [r0 EXCEPT !.pc = "debugCheck", !.obj = store[id],
                                     !.eq = QueryKey(id)]]
       IN  /\ req' = q1
           /\ heap' = Collect(heap, store, q1)
    /\ UNCHANGED <<store, db, dbLast, verdicts>>

\* The request as GET /sets/:id answers in debug mode: `local` is the record
\* held, whatever the table answered.
RespondDebug(r) ==
    [Idle EXCEPT !.kind = r.kind, !.pc = "done", !.status = 200, !.key = r.key,
                 !.body = heap[r.obj], !.probe = r.probe, !.via = r.via]

\* Lines 1022-1032: checkEvaluationInSupabase returns.
DebugCheck(p, outcome) ==
    /\ req[p].kind = "getSet"
    /\ req[p].pc = "debugCheck"
    /\ req[p].eq = NoId => outcome = "null"
    /\ outcome # "null" => RowPresent(req[p].eq)
    /\ LET r == [req[p] EXCEPT !.probe = Probed(outcome), !.eq = NoId]
           q1 == [req EXCEPT ![p] =
                     IF outcome # "null"
                     THEN [r EXCEPT !.pc = "debugFetch", !.eq = r.key]
                     ELSE RespondDebug(r)]
       IN  /\ req' = q1
           /\ heap' = Collect(heap, store, q1)
    /\ UNCHANGED <<store, db, dbLast, served, verdicts>>

\* Lines 1028-1057: `select *` returns; both outcomes answer 200.
DebugFetch(p, ok) ==
    /\ req[p].kind = "getSet"
    /\ req[p].pc = "debugFetch"
    /\ LET q1 == [req EXCEPT ![p] = RespondDebug(req[p])]
       IN  /\ req' = q1
           /\ heap' = Collect(heap, store, q1)
    /\ UNCHANGED <<store, db, dbLast, served, verdicts>>

\* ------------------------------------------- getEvaluationSetByIdFromSupabase
\* Lines 434-455 and 472-476: GET /share/:id up to the query it issues, or to
\* the answer when it issues none.
ShareBegin(p, id) ==
    /\ Free(p)
    /\ served' = served + 1
    /\ LET r0 == [Idle EXCEPT !.kind = "share", !.key = id]
           q1 == [req EXCEPT ![p] =
                     IF ~IsUuidFormat(id)
                     THEN IF store[id] = 0
                          THEN [r0 EXCEPT !.pc = "done", !.status = 404,
                                          !.via = "transient"]
                          ELSE IF heap[store[id]].supabaseId # NoId
                          THEN [r0 EXCEPT !.pc = "shareFetch", !.obj = store[id],
                                          !.eq = heap[store[id]].supabaseId,
                                          !.via = "transient"]
                          ELSE [r0 EXCEPT !.pc = "done", !.status = 200,
                                          !.body = heap[store[id]],
                                          !.via = "transient"]
                     ELSE [r0 EXCEPT !.pc = "shareFetch", !.eq = id,
                                     !.via = "persistent"]]
       IN  /\ req' = q1
           /\ heap' = Collect(heap, store, q1)
    /\ UNCHANGED <<store, db, dbLast, verdicts>>

\* Variant: an endpoint that answers 404 whenever its query returns nothing.
ShareAnswer_strict(r, found) ==
    IF found
    THEN [Idle EXCEPT !.kind = r.kind, !.pc = "done", !.status = 200, !.key = r.key,
                      !.body = FromRow(r.eq, db[r.eq]), !.probe = "found",
                      !.via = "persistent"]
    ELSE [Idle EXCEPT !.kind = r.kind, !.pc = "done", !.status = 404, !.key = r.key,
                      !.probe = "nothing", !.via = r.via]

\* Lines 456-470 and 478-483: the answer once `select * ... single()` returned.
ShareAnswer(r, found) ==
    IF found
    THEN [Idle EXCEPT !.kind = r.kind, !.pc = "done", !.status = 200, !.key = r.key,
                      !.body = FromRow(r.eq, db[r.eq]), !.probe = "found",
                      !.via = "persistent"]
    ELSE IF ~IsUuidFormat(r.key)
    THEN [Idle EXCEPT !.kind = r.kind, !.pc = "done", !.status = 200, !.key = r.key,
                      !.body = heap[r.obj], !.probe = "nothing", !.via = r.via]
    ELSE [Idle EXCEPT !.kind = r.kind, !.pc = "done", !.status = 404, !.key = r.key,
                      !.probe = "nothing", !.via = r.via]

ShareFetch(p, found) ==
    /\ req[p].kind = "share"
    /\ req[p].pc = "shareFetch"
    /\ found => RowPresent(req[p].eq)
    /\ LET q1 == [req EXCEPT ![p] = ShareAnswer(req[p], found)]
       IN  /\ req' = q1
           /\ heap' = Collect(heap, store, q1)
    /\ UNCHANGED <<store, db, dbLast, served, verdicts>>

\* The identities verifyAuth can attach to a request.
ResolvedIdentities == {verifyAuth(h, o) : h \in AuthHeaders, o \in AuthOutcomes}

\* The bodies the n-th request can send to POST /evaluate-set: those that
\* carry both arrays, non-empty, and those that miss one or carry it empty.
ValidEvaluateSetBodies(n) ==
    {[hasQuestions |-> TRUE, questions |-> qs, hasModels |-> TRUE, models |-> ms,
      setId |-> id, evaluateAutomatically |-> ea] :
        qs \in QuestionLists(n) \ {<<>>},
        ms \in SeqsUpTo(ModelIds, MaxModels) \ {<<>>},
        id \in Ids \cup {NoId},
        ea \in {JsTrue, JsFalse, Undefined}}

InvalidEvaluateSetBodies(n) ==
    {b \in [hasQuestions : BOOLEAN,
            questions : {<<>>, <<QuestionEntry(n, 1, TRUE)>>},
            hasModels : BOOLEAN,
            models : {<<>>, <<"claude3">>},
            setId : {NoId},
            evaluateAutomatically : {Undefined}] :
        /\ b.hasQuestions \/ b.questions = <<>>
        /\ b.hasModels \/ b.models = <<>>
        /\ b.questions = <<>> \/ b.models = <<>>}

EvaluateSetBodies(n) == ValidEvaluateSetBodies(n) \cup InvalidEvaluateSetBodies(n)

\* The bodies of a session's batch: well-formed questions, one or two models.
SessionEvaluateSetBodies(n) ==
    {b \in ValidEvaluateSetBodies(n) :
        /\ \A k \in 1..Len(b.questions) : IsText(b.questions[k].question)
        /\ b.models \in {<<"claude3">>, <<"claude3", "mystery">>}
        /\ b.setId = NoId
        /\ b.evaluateAutomatically \in {JsFalse, Undefined}}

\* The bodies POST /sets/:id/evaluate can be sent: isCorrect with reasoning, a
\* display name or none, an index (one past the last possible included) or
\* none, an id or none.
ManualVerdictInputs == {<<JsTrue, "Looks right.">>, <<JsFalse, Undefined>>}

CompleteManualEvalBodies ==
    {[evaluationId |-> id, hasQuestionIndex |-> TRUE, questionIndex |-> qi,
      modelName |-> m, isCorrect |-> v[1], reasoning |-> v[2]] :
        id \in Ids, qi \in 0..MaxQuestions,
        m \in {getDisplayName("claude3"), getDisplayName("mystery")},
        v \in ManualVerdictInputs}

IncompleteManualEvalBodies ==
    LET b == [evaluationId |-> <<"t", 1>>, hasQuestionIndex |-> TRUE, questionIndex |-> 0,
              modelName |-> getDisplayName("claude3"), isCorrect |-> JsTrue,
              reasoning |-> Undefined]
    IN  {[b EXCEPT !.evaluationId = NoId], [b EXCEPT !.hasQuestionIndex = FALSE],
         [b EXCEPT !.modelName = Undefined], [b EXCEPT !.isCorrect = Undefined]}

ManualEvalBodies == CompleteManualEvalBodies \cup IncompleteManualEvalBodies

Next ==
    \E p \in {1} :
        \/ /\ Free(p)
           /\ served < MaxRequests
           /\ \E user \in ResolvedIdentities, body \in EvaluateSetBodies(served + 1) :
                 EvaluateSetBegin(p, user, body)
        \/ \E outcome \in ResponderOutcomes : EvaluateSetResponder(p, outcome)
        \/ \E outcome \in JudgeOutcomes : EvaluateSetJudge(p, outcome)
        \/ EvaluateSetSave(p)

Spec == Init /\ [][Next]_vars

\* A session: one batch, then manual patches and reads, one request at a time,
\* the last of them a read.
MaxSessionRequests == 4

SessionNext ==
    \E p \in {1} :
        \/ /\ Free(p)
           /\ served = 0
           /\ \E user \in {None, "userA"}, body \in SessionEvaluateSetBodies(1) :
                 EvaluateSetBegin(p, user, body)
        \/ \E outcome \in {o \in ResponderOutcomes : o.ok} : EvaluateSetResponder(p, outcome)
        \/ \E outcome \in {o \in JudgeOutcomes : o.ok} : EvaluateSetJudge(p, outcome)
        \/ EvaluateSetSave(p)
        \/ /\ Free(p)
           /\ served + 1 < MaxSessionRequests
           /\ \E user \in ResolvedIdentities, body \in ManualEvalBodies :
                 ManualEvalBegin(p, user, body)
        \/ \E outcome \in CheckOutcomes : ManualEvalCheck(p, outcome)
        \/ \E ok \in BOOLEAN : ManualEvalFetch(p, ok)
        \/ \E ok \in BOOLEAN : ManualEvalInsertNew(p, ok)
        \/ \E ok \in BOOLEAN : ManualEvalInsertLate(p, ok)
        \/ \E ok \in BOOLEAN : ManualEvalUpdate(p, ok)
        \/ /\ Free(p)
           /\ served < MaxSessionRequests
           /\ \E user \in ResolvedIdentities, id \in Ids : getEvaluationSet(p, user, id)

SpecSession == Init /\ [][SessionNext]_vars

\* ============================================================== properties
\* A request of the given handler that has been answered.
\* Lookups: one batch, then patches and reads of every kind, one request at a
\* time, the last of them a read. The batch may name a model twice and a patch
\* may carry a null verdict.
MaxLookupRequests == 4

LookupEvaluateSetBodies ==
    {b \in ValidEvaluateSetBodies(1) :
        /\ \A k \in 1..Len(b.questions) : IsText(b.questions[k].question)
        /\ b.models \in {<<"claude3">>, <<"claude3", "claude3">>}
        /\ b.setId = NoId
        /\ b.evaluateAutomatically \in {JsFalse, Undefined}}

LookupManualEvalBodies ==
    {[evaluationId |-> id, hasQuestionIndex |-> TRUE, questionIndex |-> qi,
      modelName |-> getDisplayName("claude3"), isCorrect |-> v, reasoning |-> Undefined] :
        id \in Ids, qi \in 0..(MaxQuestions - 1), v \in {JsTrue, None}}

LookupNext ==
    \E p \in {1} :
        \/ /\ Free(p)
           /\ served = 0
           /\ \E user \in {None, "userA"}, body \in LookupEvaluateSetBodies :
                 EvaluateSetBegin(p, user, body)
        \/ \E outcome \in {o \in ResponderOutcomes : o.ok} : EvaluateSetResponder(p, outcome)
        \/ \E outcome \in {o \in JudgeOutcomes : o.ok} : EvaluateSetJudge(p, outcome)
        \/ EvaluateSetSave(p)
        \/ /\ Free(p)
           /\ served > 0
           /\ served + 1 < MaxLookupRequests
           /\ \E user \in {None, "userA"}, body \in LookupManualEvalBodies :
                 ManualEvalBegin(p, user, body)
        \/ \E outcome \in CheckOutcomes : ManualEvalCheck(p, outcome)
        \/ \E ok \in BOOLEAN : ManualEvalFetch(p, ok)
        \/ \E ok \in BOOLEAN : ManualEvalInsertNew(p, ok)
        \/ \E ok \in BOOLEAN : ManualEvalInsertLate(p, ok)
        \/ \E ok \in BOOLEAN : ManualEvalUpdate(p, ok)
        \/ /\ Free(p) /\ served > 0 /\ served < MaxLookupRequests
           /\ \E id \in Ids : getEvaluationSet(p, None, id)
        \/ /\ Free(p) /\ served > 0 /\ served < MaxLookupRequests
           /\ \E id \in Ids : getEvaluationSetDebug(p, None, id)
        \/ /\ Free(p) /\ served > 0 /\ served < MaxLookupRequests
           /\ \E id \in Ids : ShareBegin(p, id)
        \/ \E outcome \in CheckOutcomes : DebugCheck(p, outcome)
        \/ \E ok \in BOOLEAN : DebugFetch(p, ok)
        \/ \E found \in BOOLEAN : ShareFetch(p, found)

SpecLookup == Init /\ [][LookupNext]_vars

\* Two patches in flight at once: one batch of one question for two models,
\* then one patch per slot, their steps interleaved as the event loop allows
\* between awaits.
MaxRaceRequests == 3

RaceEvaluateSetBodies ==
    {b \in ValidEvaluateSetBodies(1) :
        /\ Len(b.questions) = 1 /\ IsText(b.questions[1].question)
        /\ b.models = <<"claude3", "mystery">>
        /\ b.setId = NoId
        /\ b.evaluateAutomatically = JsFalse}

RaceManualEvalBodies ==
    {[evaluationId |-> id, hasQuestionIndex |-> TRUE, questionIndex |-> 0,
      modelName |-> m, isCorrect |-> JsTrue, reasoning |-> Undefined] :
        id \in Ids, m \in {getDisplayName("claude3"), getDisplayName("mystery")}}

BatchOver == served > 0 /\ (req[1].kind = "evaluateSet" => req[1].pc = "done")

RaceNext ==
    \/ /\ Free(1)
       /\ served = 0
       /\ \E body \in RaceEvaluateSetBodies : EvaluateSetBegin(1, None, body)
    \/ \E outcome \in {o \in ResponderOutcomes : o.ok} : EvaluateSetResponder(1, outcome)
    \/ EvaluateSetSave(1)
    \/ \E p \in Slots :
          \/ /\ Free(p)
             /\ BatchOver
             /\ served < MaxRaceRequests
             /\ req[p].kind # "manualEval"
             /\ \E body \in RaceManualEvalBodies : ManualEvalBegin(p, "userA", body)
          \/ \E outcome \in CheckOutcomes : ManualEvalCheck(p, outcome)
          \/ \E ok \in BOOLEAN : ManualEvalFetch(p, ok)
          \/ \E ok \in BOOLEAN : ManualEvalInsertNew(p, ok)
          \/ \E ok \in BOOLEAN : ManualEvalInsertLate(p, ok)
          \/ \E ok \in BOOLEAN : ManualEvalUpdate(p, ok)

SpecRace == Init /\ [][RaceNext]_vars

\* The life of a record: batches of one question that create a set or reuse
\* one through setId, and patches of any id, one request at a time.
MaxHistoryRequests == 5

HistoryEvaluateSetBodies(n) ==
    {b \in ValidEvaluateSetBodies(n) :
        /\ Len(b.questions) = 1 /\ IsText(b.questions[1].question)
        /\ b.models = <<"claude3">>
        /\ b.evaluateAutomatically = JsFalse}

HistoryManualEvalBodies ==
    {[evaluationId |-> id, hasQuestionIndex |-> TRUE, questionIndex |-> qi,
      modelName |-> getDisplayName("claude3"), isCorrect |-> JsTrue,
      reasoning |-> Undefined] :
        id \in Ids, qi \in 0..(MaxQuestions - 1)}

HistoryNext ==
    \E p \in {1} :
        \/ /\ Free(p)
           /\ served < MaxHistoryRequests
           /\ \E body \in HistoryEvaluateSetBodies(served + 1) :
                 EvaluateSetBegin(p, None, body)
        \/ \E outcome \in {o \in ResponderOutcomes : o.ok} : EvaluateSetResponder(p, outcome)
        \/ EvaluateSetSave(p)
        \/ /\ Free(p)
           /\ served > 0
           /\ served < MaxHistoryRequests
           /\ \E body \in HistoryManualEvalBodies : ManualEvalBegin(p, "userA", body)
        \/ \E outcome \in CheckOutcomes : ManualEvalCheck(p, outcome)
        \/ \E ok \in BOOLEAN : ManualEvalFetch(p, ok)
        \/ \E ok \in BOOLEAN : ManualEvalInsertNew(p, ok)
        \/ \E ok \in BOOLEAN : ManualEvalInsertLate(p, ok)
        \/ \E ok \in BOOLEAN : ManualEvalUpdate(p, ok)

SpecHistory == Init /\ [][HistoryNext]_vars

\* getModelResponse on its own: one call per behaviour, for a short id that is
\* registered, unknown or inherited, answered by a completion (padded with
\* spaces or not, empty or not) or by an error that carries a provider
\* message, an SDK message, both or neither.
ResponderNames == DOMAIN AVAILABLE_MODELS \cup ObjectPrototypeKeys \cup {"mystery"}

ResponderAnswers == {<<" ", "4", " ">>, <<"4">>, <<"4", " ", "2">>, <<" ">>}

ResponderErrors ==
    [message : {"Request failed with status code 502"},
     inner : {Undefined, "Rate limit exceeded"},
     nested : {Undefined, "Provider returned error"}]

ResponderInit ==
    /\ heap = [a \in Addrs |-> NoObj]
    /\ store = [i \in Ids |-> 0]
    /\ db = [u \in UuidIds |-> NoRow]
    /\ \E name \in ResponderNames,
          outcome \in {[ok |-> TRUE, content |-> c, error |-> CHOOSE e \in UpstreamErrors : TRUE] :
                           c \in ResponderAnswers}
                      \cup {[ok |-> FALSE, content |-> <<>>, error |-> e] :
                                e \in ResponderErrors} :
          req = [p \in Slots |->
                    IF p = 1
                    THEN [Idle EXCEPT !.kind = "respond", !.pc = "call",
                                      !.models = <<name>>, !.payload = <<outcome>>]
                    ELSE Idle]
    /\ served = 0
    /\ dbLast = NoWrite
    /\ verdicts = {}

\* Lines 119-166: the call, from its argument to what it returns.
RespondCall(p) ==
    /\ req[p].kind = "respond"
    /\ req[p].pc = "call"
    /\ req' = [req EXCEPT ![p].content =
                   getModelResponse(req[p].models[1], req[p].payload[1]),
                          ![p].upstreamRequests = ResponderRequests(req[p].models[1]),
                          ![p].responderCalls = 1,
                          ![p].pc = "done"]
    /\ UNCHANGED <<heap, store, db, served, dbLast, verdicts>>

ResponderNext == \E p \in {1} : RespondCall(p)

SpecResponder == ResponderInit /\ [][ResponderNext]_vars

\* evaluateResponse on its own: the three texts it is called with, made of
\* plain words, of the template's own placeholders and of the dollar patterns
\* of String.prototype.replace, and what the judge answers: a verdict, another
\* JSON object, a failed call or a body that does not parse.
PromptTexts ==
    {<<"2", "+", "2">>}
        \cup {<<"What is ", t, "?">> :
                 t \in {"{reference_answer}", "{model_response}", "$$", "$&", "$'"}}

JudgeReplies ==
    {[ok |-> TRUE, stage |-> "none", body |-> b] :
        b \in JudgeBodies \cup {[is_correct |-> Undefined, reasoning |-> Undefined]}}
    \cup {[ok |-> FALSE, stage |-> st, body |-> [is_correct |-> Undefined,
                                                reasoning |-> Undefined]] :
             st \in {"call", "parse"}}

JudgeInit ==
    /\ heap = [a \in Addrs |-> NoObj]
    /\ store = [i \in Ids |-> 0]
    /\ db = [u \in UuidIds |-> NoRow]
    /\ \E question \in PromptTexts, referenceAnswer \in PromptTexts,
          modelResponse \in PromptTexts, outcome \in JudgeReplies :
          req = [p \in Slots |->
                    IF p = 1
                    THEN [Idle EXCEPT !.kind = "judge", !.pc = "prompt",
                                      !.questions = <<[question |-> question,
                                                       referenceAnswer |-> referenceAnswer]>>,
                                      !.results = <<modelResponse>>,
                                      !.payload = <<outcome>>]
                    ELSE Idle]
    /\ served = 0
    /\ dbLast = NoWrite
    /\ verdicts = {}

\* Lines 169-173: the prompt is built.
JudgePrompt(p) ==
    /\ req[p].kind = "judge"
    /\ req[p].pc = "prompt"
    /\ req' = [req EXCEPT ![p].content =
                   FillTemplate(req[p].questions[1].question,
                                req[p].questions[1].referenceAnswer,
                                req[p].results[1]),
                          ![p].pc = "call"]
    /\ UNCHANGED <<heap, store, db, served, dbLast, verdicts>>

\* Lines 175-196: the call and JSON.parse return or throw.
JudgeReturn(p) ==
    /\ req[p].kind = "judge"
    /\ req[p].pc = "call"
    /\ LET evaluationResult == evaluateResponse(req[p].payload[1])
       IN  req' = [req EXCEPT ![p].evaluation =
                       [NoEvaluation EXCEPT !.is_correct = evaluationResult.is_correct,
                                            !.reasoning = evaluationResult.reasoning],
                              ![p].judgeCalls = 1,
                              ![p].pc = "done"]
    /\ UNCHANGED <<heap, store, db, served, dbLast, verdicts>>

JudgeNext == \E p \in {1} : JudgePrompt(p) \/ JudgeReturn(p)

SpecJudge == JudgeInit /\ [][JudgeNext]_vars

\* The middleware on its own: requests on a route guarded by verifyAuth and on
\* one guarded by requireAuth, two of them in flight at a time; the route's
\* handler is a single step.
MaxAuthRequests == 3

AuthGuards == {"verifyAuth", "requireAuth"}

\* verifyAuth calls next (lines 1251, 1259, 1293, 1300): on a verifyAuth route
\* the handler runs; under requireAuth next is `() => {}` and the await of
\* line 1307 resumes.
Continue(r, user, settled) ==
    IF r.guard = "verifyAuth"
    THEN [r EXCEPT !.user = user, !.settled = settled, !.nexts = @ + 1,
                   !.handlerRuns = @ + 1, !.status = 200, !.pc = "done"]
    ELSE [r EXCEPT !.user = user, !.settled = settled, !.nexts = @ + 1,
                   !.pc = "require"]

\* Lines 1243-1275: the header, the token, and the verification issued.
AuthBegin(p, guard, header) ==
    /\ Free(p)
    /\ served' = served + 1
    /\ LET r0 == [Idle EXCEPT !.kind = "auth", !.guard = guard, !.header = header]
       IN  req' = [req EXCEPT ![p] =
                      IF ~header.bearer \/ ~header.long
                      THEN Continue(r0, verifyAuth(header, "none"), "none")
                      ELSE [r0 EXCEPT !.pc = "verifying", !.remoteCalls = 1]]
    /\ UNCHANGED <<heap, store, db, dbLast, verdicts>>

\* Lines 1276-1296: supabase.auth.getUser settles before the timer.
AuthSettle(p, outcome) ==
    /\ req[p].kind = "auth"
    /\ req[p].pc = "verifying"
    /\ req' = [req EXCEPT ![p] =
                  Continue(req[p], verifyAuth(req[p].header, outcome), outcome)]
    /\ UNCHANGED <<heap, store, db, served, dbLast, verdicts>>

\* Lines 1268-1270 and 1297-1301: the timer of five seconds fires first.
AuthTimeout(p) ==
    /\ req[p].kind = "auth"
    /\ req[p].pc = "verifying"
    /\ req' = [req EXCEPT ![p] =
                  Continue(req[p], verifyAuth(req[p].header, "timeout"), "timeout")]
    /\ UNCHANGED <<heap, store, db, served, dbLast, verdicts>>

\* Lines 1309-1318: requireAuth answers 401 or calls next.
RequireDecide(p) ==
    /\ req[p].kind = "auth"
    /\ req[p].pc = "require"
    /\ req' = [req EXCEPT ![p] =
                  IF requireAuth(req[p].user)
                  THEN [req[p] EXCEPT !.handlerRuns = @ + 1, !.status = 200, !.pc = "done"]
                  ELSE [req[p] EXCEPT !.responses = @ + 1, !.status = 401, !.pc = "done"]]
    /\ UNCHANGED <<heap, store, db, served, dbLast, verdicts>>

AuthNext ==
    \E p \in Slots :
        \/ /\ Free(p)
           /\ served < MaxAuthRequests
           /\ \E guard \in AuthGuards, header \in AuthHeaders : AuthBegin(p, guard, header)
        \/ \E outcome \in {"answered", "failed"} : AuthSettle(p, outcome)
        \/ AuthTimeout(p)
        \/ RequireDecide(p)

SpecAuth == Init /\ [][AuthNext]_vars

\* The timer set at line 1269 fires, and a resumed requireAuth runs on.
SpecAuthLive ==
    /\ SpecAuth
    /\ \A p \in Slots : WF_vars(AuthTimeout(p)) /\ WF_vars(RequireDecide(p))

\* The registry on its own: lists of names, each resolved to its display name
\* and the result resolved once more. The names are the short ids, the display
\* names, keys every object inherits, and a name the registry does not know.
MaxNames == 2

RegistryNames ==
    DOMAIN AVAILABLE_MODELS
        \cup {AVAILABLE_MODELS[k].display : k \in DOMAIN AVAILABLE_MODELS}
        \cup ObjectPrototypeKeys \cup {"mystery"}

RegistryInit ==
    /\ heap = [a \in Addrs |-> NoObj]
    /\ store = [i \in Ids |-> 0]
    /\ db = [u \in UuidIds |-> NoRow]
    /\ \E names \in SeqsUpTo(RegistryNames, MaxNames) :
          req = [p \in Slots |->
                    IF p = 1
                    THEN [Idle EXCEPT !.kind = "resolve", !.pc = "resolve",
                                      !.models = names]
                    ELSE Idle]
    /\ served = 0
    /\ dbLast = NoWrite
    /\ verdicts = {}

\* getDisplayName applied to the next name of the list.
ResolveDisplayName(p) ==
    /\ req[p].kind = "resolve"
    /\ req[p].pc = "resolve"
    /\ req[p].mi < Len(req[p].models)
    /\ req' = [req EXCEPT ![p].results =
                   Append(@, getDisplayName(req[p].models[req[p].mi + 1])),
                          ![p].pc = "again"]
    /\ UNCHANGED <<heap, store, db, served, dbLast, verdicts>>

\* getDisplayName applied to what it returned.
ResolveAgain(p) ==
    /\ req[p].kind = "resolve"
    /\ req[p].pc = "again"
    /\ req' = [req EXCEPT ![p].content =
                   Append(@, getDisplayName(req[p].results[req[p].mi + 1])),
                          ![p].mi = @ + 1,
                          ![p].pc = IF req[p].mi + 1 = Len(req[p].models)
                                    THEN "done" ELSE "resolve"]
    /\ UNCHANGED <<heap, store, db, served, dbLast, verdicts>>

RegistryNext == \E p \in {1} : ResolveDisplayName(p) \/ ResolveAgain(p)

SpecRegistry == RegistryInit /\ [][RegistryNext]_vars

Answered(p, kind) == req[p].kind = kind /\ req[p].pc = "done"

\* The body of a batch carried both arrays, non-empty.
Validated(r) ==
    r.hasQuestions /\ r.hasModels /\ r.questions # <<>> /\ r.models # <<>>

\* Every entry of the batch carries a question text.
WellFormed(r) == \A k \in 1..Len(r.questions) : IsText(r.questions[k].question)

\* The Question entries the batch of slot p has appended so far: those of the
\* answer once it is a 200, those of the store while the batch is running.
Appended(p) ==
    LET r == req[p]
        qs == IF r.pc = "done" THEN r.body.questions
              ELSE heap[store[r.key]].questions
    IN  IF r.kind = "evaluateSet" /\ (r.pc \notin {"idle", "done"} \/ r.status = 200)
        THEN SubSeq(qs, r.prior + 1, Len(qs))
        ELSE <<>>

SameQuestions(entries, questions) ==
    /\ Len(entries) = Len(questions)
    /\ \A k \in 1..Len(questions) :
          /\ entries[k].question = questions[k].question
          /\ entries[k].referenceAnswer = questions[k].referenceAnswer

\* C1 as stated: the set in every 200 answer of evaluateSet holds exactly the
\* Q questions of the request, in submission order, whether the set was
\* created or reused through setId.
C1_ExactlyQ ==
    \A p \in Slots :
        Answered(p, "evaluateSet") /\ req[p].status = 200
            => SameQuestions(req[p].body.questions, req[p].questions)

\* C1 amended: the set in every 200 answer of evaluateSet holds the entries the
\* set held before the request followed by the Q questions of the request in
\* submission order; a newly created set holds exactly those Q.
C1_PriorThenQ ==
    \A p \in Slots :
        Answered(p, "evaluateSet") /\ req[p].status = 200
            => /\ Len(req[p].body.questions) = req[p].prior + Len(req[p].questions)
               /\ SameQuestions(Appended(p), req[p].questions)
               /\ req[p].isNew => req[p].prior = 0

C1_Witness ==
    \E p \in Slots :
        /\ Answered(p, "evaluateSet") /\ req[p].status = 200
        /\ ~req[p].isNew /\ req[p].prior > 0

\* C2: every Question entry a batch with model list [m_1..m_M] appends has
\* exactly M results, and results[i].model is the display name of m_i, in
\* submission order, duplicate and unknown ids included.
C2_ResultsFollowModels ==
    \A p \in Slots :
        \A k \in 1..Len(Appended(p)) :
            LET results == Appended(p)[k].results
                models == req[p].models
            IN  /\ Len(results) = Len(models)
                /\ \A i \in 1..Len(models) : results[i].model = getDisplayName(models[i])

C2_Witness ==
    \E p \in Slots :
        /\ Answered(p, "evaluateSet") /\ req[p].status = 200
        /\ req[p].models = <<"claude3", "claude3">>
        /\ Len(Appended(p)) = MaxQuestions

\* C3: every Result a batch submitted with evaluateAutomatically = false
\* appends has the pending evaluation (all fields null, type pending_manual),
\* evaluationTime 0 and totalTime = responseTime.
C3_PendingWhenNotAutomatic ==
    \A p \in Slots :
        req[p].auto = JsFalse =>
            \A k \in 1..Len(Appended(p)) :
                \A i \in 1..Len(Appended(p)[k].results) :
                    LET result == Appended(p)[k].results[i]
                    IN  /\ result.evaluation =
                              [is_correct |-> None, reasoning |-> None,
                               evaluation_type |-> "pending_manual",
                               evaluated_at |-> None, evaluated_by |-> None]
                        /\ result.timings.evaluationTime = 0
                        /\ result.timings.totalTime = result.timings.responseTime

C3_Witness ==
    \E p \in Slots :
        /\ Answered(p, "evaluateSet") /\ req[p].status = 200
        /\ req[p].auto = JsFalse
        /\ Len(Appended(p)) = MaxQuestions
        /\ Len(req[p].models) = MaxModels

\* C8 as stated: evaluateSet answers 400 whenever questions or models is
\* missing or empty, having made no responder or judge call.
C8_MissingOrEmptyIs400 ==
    \A p \in Slots :
        Answered(p, "evaluateSet") /\ ~Validated(req[p])
            => /\ req[p].status = 400
               /\ req[p].responderCalls = 0
               /\ req[p].judgeCalls = 0

\* C9 as stated: when every upstream call of a batch fails the answer is a 200
\* with Q questions of M results, every response the 'Error getting response
\* from {shortId} via OpenRouter: {message}' text, and in automatic mode every
\* verdict the fallback.
AllUpstreamFailed(r) == r.upstreamFailures = r.upstreamRequests

ErrorText(shortId) ==
    {<<"Error getting response from ", shortId, " via OpenRouter: ", ErrorMessage(e)>> :
        e \in UpstreamErrors}

FallbackVerdict(evaluation) ==
    evaluation.is_correct = JsFalse /\ evaluation.reasoning = "Error during evaluation."

C9_EveryResponseIsErrorText ==
    \A p \in Slots :
        LET r == req[p]
        IN  /\ Answered(p, "evaluateSet") /\ r.status = 200
            /\ r.upstreamRequests > 0 /\ AllUpstreamFailed(r)
            => /\ Len(Appended(p)) = Len(r.questions)
               /\ \A k \in 1..Len(Appended(p)) :
                     /\ Len(Appended(p)[k].results) = Len(r.models)
                     /\ \A i \in 1..Len(r.models) :
                           LET result == Appended(p)[k].results[i]
                           IN  /\ result.response \in ErrorText(r.models[i])
                               /\ r.auto = JsTrue => FallbackVerdict(result.evaluation)

\* C9 amended: when every upstream call of a batch fails the answer is a 200
\* with Q questions of M results; the response of a registered id is the
\* 'Error getting response from ...' text, that of an unregistered id (for which
\* no upstream call is made) the 'Model {id} not supported ...' text; in
\* automatic mode every verdict is the fallback.
C9_ErrorOrNotSupported ==
    \A p \in Slots :
        LET r == req[p]
        IN  /\ Answered(p, "evaluateSet") /\ r.status = 200
            /\ AllUpstreamFailed(r)
            => /\ Len(Appended(p)) = Len(r.questions)
               /\ \A k \in 1..Len(Appended(p)) :
                     /\ Len(Appended(p)[k].results) = Len(r.models)
                     /\ \A i \in 1..Len(r.models) :
                           LET result == Appended(p)[k].results[i]
                               m == r.models[i]
                           IN  /\ IF m \in DOMAIN AVAILABLE_MODELS
                                  THEN result.response \in ErrorText(m)
                                  ELSE result.response =
                                         <<"Model ", m,
                                           " not supported via OpenRouter in this configuration.">>
                               /\ r.auto = JsTrue => FallbackVerdict(result.evaluation)

C9_Witness ==
    \E p \in Slots :
        /\ Answered(p, "evaluateSet") /\ req[p].status = 200
        /\ req[p].upstreamRequests > 0 /\ AllUpstreamFailed(req[p])
        /\ req[p].auto = JsTrue
        /\ req[p].models = <<"claude3", "mystery">>
        /\ Len(req[p].questions) = MaxQuestions

\* C10: a batch of Q well-formed questions and M models invokes the responder
\* exactly Q*M times and the judge Q*M times in automatic mode, 0 times
\* otherwise; no invocation issues more than one upstream request; a failed
\* responder call skips neither its Result nor its judge call.
C10_CallCounts ==
    \A p \in Slots :
        LET r == req[p]
            calls == Len(r.questions) * Len(r.models)
        IN  /\ r.upstreamRequests <= r.responderCalls + r.judgeCalls
            /\ Answered(p, "evaluateSet") /\ Validated(r) /\ WellFormed(r)
               => /\ r.status = 200
                  /\ r.responderCalls = calls
                  /\ r.judgeCalls = IF r.auto = JsTrue THEN calls ELSE 0
                  /\ \A k \in 1..Len(Appended(p)) :
                        Len(Appended(p)[k].results) = Len(r.models)
            /\ r.kind = "evaluateSet" /\ r.pc = "judge"
               => r.judgeCalls + 1 = r.responderCalls

C10_Witness ==
    \E p \in Slots :
        /\ Answered(p, "evaluateSet") /\ req[p].status = 200
        /\ req[p].auto = JsTrue
        /\ req[p].upstreamFailures > 0
        /\ req[p].responderCalls = MaxQuestions * MaxModels
        /\ req[p].judgeCalls = MaxQuestions * MaxModels

\* What GET /sets/:id shows at a verdict's address: the first Result of
\* questions[questionIndex] with the verdict's model.
Shows(set, v) ==
    /\ v.questionIndex + 1 <= Len(set.questions)
    /\ LET results == set.questions[v.questionIndex + 1].results
           matches == {j \in 1..Len(results) : results[j].model = v.modelName}
       IN  /\ matches # {}
           /\ LET evaluation == results[Min(matches)].evaluation
              IN  /\ evaluation.evaluation_type = "manual"
                  /\ evaluation.is_correct = v.is_correct
                  /\ evaluation.reasoning = v.reasoning

\* C4 as stated: after a manual patch with non-empty reasoning answered 200, a
\* later GET of the set shows the verdict at its address (type manual, the
\* is_correct and reasoning supplied) as long as no later patch targeted the
\* same address.
C4_RoundTrip ==
    \A p \in Slots :
        Answered(p, "getSet") =>
            \A v \in verdicts :
                v.id = req[p].key /\ v.reasoning # "Manually evaluated by user."
                    => req[p].status = 200 /\ Shows(req[p].body, v)

\* C4 amended: after a manual patch answered 200, a later GET of the set shows
\* the verdict at its address (the default reasoning when none was supplied) as
\* long as no later patch targeted the same address and, for a UUID-shaped
\* evaluationId, no later patch targeted the same set.
C4_RoundTripUnfollowed ==
    \A p \in Slots :
        Answered(p, "getSet") =>
            \A v \in verdicts :
                v.id = req[p].key /\ ~v.followed
                    => req[p].status = 200 /\ Shows(req[p].body, v)

C4_Witness ==
    \E p \in Slots :
        /\ Answered(p, "getSet")
        /\ IsUuidFormat(req[p].key)
        /\ \E v \in verdicts :
              v.id = req[p].key /\ ~v.followed /\ v.reasoning = "Looks right."
        /\ \E v \in verdicts : v.id = req[p].key /\ v.followed

\* The record(s) kept under an id, in either store, all have owner A.
OwnedBy(id, A) ==
    /\ id \in Ids
    /\ store[id] # 0 \/ (IsUuidFormat(id) /\ db[id].present)
    /\ store[id] # 0 => heap[store[id]].user_id = A
    /\ IsUuidFormat(id) /\ db[id].present => db[id].user_id = A

\* C5 as stated: a complete manual patch of a record owned by A, sent with an
\* identity other than A (another user or none), is answered 403 and leaves
\* the record as it was.
C5_MismatchIs403 ==
    \A p \in Slots : \A A \in Users :
        /\ Answered(p, "manualEval") /\ req[p].status # 400
        /\ OwnedBy(req[p].key, A) /\ req[p].user # A
        => req[p].status = 403

\* What the handler and its route do for a record owned by A: a manual patch
\* sent with an identity other than A changes neither store; another user is
\* answered 403 (404 or 500 when a UUID-shaped record cannot be loaded), the
\* anonymous identity is answered 401 by requireAuth.
NoPatchByOthers ==
    [][\A p \in Slots : \A A \in Users :
          /\ req'[p].kind = "manualEval" /\ req'[p] # req[p]
          /\ OwnedBy(req'[p].key, A) /\ req'[p].user # A
          => /\ store' = store /\ heap' = heap /\ db' = db
             /\ req'[p].pc = "done" =>
                   IF req'[p].user = None THEN req'[p].status = 401
                   ELSE \/ req'[p].status \in {400, 403}
                        \/ IsUuidFormat(req'[p].key) /\ req'[p].status \in {404, 500}
      ]_vars

C5_Witness ==
    \E p \in Slots :
        /\ Answered(p, "manualEval") /\ req[p].status = 403
        /\ req[p].user = "userB" /\ OwnedBy(req[p].key, "userA")
        /\ IsUuidFormat(req[p].key)

\* C6 as stated: a complete manual patch sent without a resolved identity to
\* an existing address of a record whose owner is null is answered 200 and
\* stores evaluated_by = null.
C6_AnonymousAccepted ==
    \A p \in Slots :
        LET r == req[p]
        IN  /\ Answered(p, "manualEval") /\ r.user = None
            /\ r.key \in TransientIds /\ store[r.key] # 0
            /\ heap[store[r.key]].user_id = None
            /\ Truthy(r.modelName) /\ r.isCorrect # Undefined
            /\ r.questionIndex + 1 <= Len(heap[store[r.key]].questions)
            /\ \E j \in 1..Len(heap[store[r.key]].questions[r.questionIndex + 1].results) :
                  heap[store[r.key]].questions[r.questionIndex + 1].results[j].model
                      = r.modelName
            => r.status = 200 /\ r.evaluation.evaluated_by = None

\* C7 as stated: a manual patch of a Transient record that carries a
\* supabaseId writes to the table by an UPDATE, never by an INSERT.
C7_UpdateOnceRemote ==
    dbLast.by = "manualEval" /\ dbLast.hadRemoteId => dbLast.op = "update"

\* C11: when the write to the table (insert or update) fails during
\* evaluateSet or during a manual patch, the request is still answered 200 with
\* the data held in memory (the full set, respectively the evaluation
\* written), and the store keeps the appended questions, respectively the
\* verdict.
C11_BestEffortPersistence ==
    \A p \in Slots :
        LET r == req[p]
        IN  Answered(p, r.kind) /\ r.writeFailures > 0
            => /\ r.status = 200
               /\ r.kind \in {"evaluateSet", "manualEval"}
               /\ r.kind = "evaluateSet"
                  => /\ r.body = heap[store[r.key]]
                     /\ SameQuestions(Appended(p), r.questions)
               /\ r.kind = "manualEval"
                  => /\ r.evaluation.evaluation_type = "manual"
                     /\ r.evaluation.is_correct = r.isCorrect
                     /\ r.evaluation.reasoning = Verdict(r).reasoning
                     /\ r.evaluation.evaluated_by = r.user
                     /\ Shows(heap[store[r.key]], Verdict(r))

C11_Witness ==
    \E p \in Slots :
        /\ Answered(p, "manualEval") /\ req[p].status = 200
        /\ req[p].writeFailures = 2
        /\ heap[store[req[p].key]].supabaseId = NoId

\* Requests that resolved the id they were given.
Resolved(p) ==
    /\ req[p].pc = "done"
    /\ req[p].kind \in {"getSet", "share", "manualEval"}
    /\ req[p].via # "none"

\* C12 (as stated): every operation that resolves a UUID-shaped id resolves it
\* through the table, never through the transient store.
C12_UuidViaTable ==
    \A p \in Slots :
        Resolved(p) /\ IsUuidFormat(req[p].key) => req[p].via = "persistent"

\* C12 (amended): GET /share/:id resolves a UUID-shaped id through the table
\* only; a manual patch of a UUID-shaped id loads the record from the table
\* exactly when its existence check found the row, and from the transient store
\* when the check returned nothing; GET /sets/:id reads the transient store
\* whatever the shape of the id.
C12_UuidRouting ==
    \A p \in Slots :
        LET r == req[p]
        IN  Resolved(p) /\ IsUuidFormat(r.key)
            => /\ r.kind = "share" => r.via = "persistent"
               /\ r.kind = "manualEval"
                  => /\ r.probe = "found" <=> r.via = "persistent"
                     /\ r.probe = "nothing" <=> r.via = "transient"
               /\ r.kind = "getSet" => r.via = "transient"

C12_Witness ==
    \E p \in Slots :
        /\ Answered(p, "manualEval") /\ req[p].status = 200
        /\ IsUuidFormat(req[p].key)
        /\ req[p].probe = "found" /\ req[p].via = "persistent"

\* C13: no request of GET /sets/:id (debug or not), GET /share/:id or a manual
\* patch has a query in flight on the table whose `.eq('id', ...)` key is not
\* UUID-shaped.
C13_OnlyUuidKeys ==
    \A p \in Slots :
        req[p].kind \in {"getSet", "share", "manualEval"}
            => req[p].eq = NoId \/ IsUuidFormat(req[p].eq)

C13_Witness ==
    /\ \E p \in Slots :
          /\ req[p].kind = "manualEval" /\ req[p].pc = "update"
          /\ ~IsUuidFormat(req[p].key) /\ IsUuidFormat(req[p].eq)
    /\ store[<<"t", 1>>] # 0

\* C14: GET /share/:id answers a UUID-shaped id from the table alone (the row,
\* or 404 when the lookup returns none); a non-UUID id from the transient
\* store: 404 when it holds no record, the row under the record's supabaseId
\* when there is one and it could be fetched, the transient record otherwise.
C14_ShareContract ==
    \A p \in Slots :
        LET r == req[p]
        IN  Answered(p, "share")
            => IF IsUuidFormat(r.key)
               THEN /\ ~db[r.key].present => r.status = 404
                    /\ IF r.probe = "found"
                       THEN r.status = 200 /\ r.body = FromRow(r.key, db[r.key])
                       ELSE r.status = 404
               ELSE IF store[r.key] = 0
               THEN r.status = 404 /\ r.probe = "none"
               ELSE LET localSet == heap[store[r.key]]
                    IN  /\ r.status = 200
                        /\ IF localSet.supabaseId # NoId /\ r.probe = "found"
                           THEN r.body = FromRow(localSet.supabaseId,
                                                 db[localSet.supabaseId])
                           ELSE r.body = localSet
                        /\ localSet.supabaseId = NoId => r.probe = "none"

C14_Witness ==
    \E p \in Slots :
        /\ Answered(p, "share") /\ req[p].status = 200
        /\ ~IsUuidFormat(req[p].key)
        /\ req[p].probe = "nothing"
        /\ req[p].body.questions[1].results[1].evaluation.evaluation_type = "manual"

\* C15: getDisplayName returns the registered display name for a short id of
\* the registry and the input itself for every other string, and applied to its
\* own result it returns that result.
C15_DisplayNameTotal ==
    \A p \in Slots :
        req[p].kind = "resolve"
            => /\ \A k \in 1..Len(req[p].results) :
                      LET name == req[p].models[k]
                      IN  req[p].results[k] =
                              IF name \in DOMAIN AVAILABLE_MODELS
                              THEN AVAILABLE_MODELS[name].display
                              ELSE name
               /\ \A k \in 1..Len(req[p].content) :
                      req[p].content[k] = req[p].results[k]

\* What holds for every name: the second application changes nothing.
C15_Idempotent ==
    \A p \in Slots :
        req[p].kind = "resolve"
            => \A k \in 1..Len(req[p].content) : req[p].content[k] = req[p].results[k]

C15_Witness ==
    \E p \in Slots :
        /\ req[p].kind = "resolve" /\ req[p].pc = "done"
        /\ req[p].models = <<"constructor", "claude3">>
        /\ req[p].results = <<Undefined, "Claude 3.7">>

\* Two patches answered 200 for different Results of the same record.
BothPatched ==
    /\ \A p \in Slots : Answered(p, "manualEval") /\ req[p].status = 200
    /\ req[1].key = req[2].key
    /\ req[1].questionIndex = req[2].questionIndex
    /\ req[1].modelName # req[2].modelName

\* C16: two manual patches in flight on the same evaluationId race on the
\* transient record, last writer wins: once both have answered 200 for
\* different Results, the record holds the verdict of at least one of them, and
\* of both when both patched the copy the store held (neither loaded the row);
\* the witness is an interleaving after which it holds only one.
C16_LastWriterWins ==
    BothPatched
        => LET evaluationSet == heap[store[req[1].key]]
           IN  /\ \E p \in Slots : Shows(evaluationSet, Verdict(req[p]))
               /\ (\A p \in Slots : req[p].via = "transient")
                     => \A p \in Slots : Shows(evaluationSet, Verdict(req[p]))

\* No write failed, so the verdict is lost to the interleaving alone.
C16_Witness ==
    /\ BothPatched
    /\ \A p \in Slots : req[p].writeFailures = 0
    /\ \E p, q \in Slots :
          /\ Shows(heap[store[req[1].key]], Verdict(req[p]))
          /\ ~Shows(heap[store[req[1].key]], Verdict(req[q]))

\* The record a patch at `check` or `fetch` is about to load.
Loading(r) ==
    IF r.pc = "fetch" THEN FromRow(r.key, db[r.key]) ELSE heap[store[r.key]]

\* C17: the step of a manual patch that writes turns the record it loaded into
\* the same record with one evaluation replaced, that of the first Result of
\* questions[questionIndex] whose model is modelName, by {is_correct: isCorrect,
\* reasoning: the reasoning supplied or the default text, evaluation_type:
\* manual, evaluated_by: the identity or null, evaluated_at: now}; the later
\* steps of the patch leave the record's questions as they are.
C17_PatchFrame ==
    [][\A p \in Slots :
          LET r == req[p]
              k == r.questionIndex + 1
          IN  /\ ( /\ r.kind = "manualEval" /\ r.pc \in {"check", "fetch"}
                   /\ req'[p].pc \in {"insertNew", "insertLate", "update"} )
                 => LET before == Loading(r)
                        results == before.questions[k].results
                        first == CHOOSE j \in 1..Len(results) :
                                    /\ results[j].model = r.modelName
                                    /\ \A i \in 1..(j - 1) : results[i].model # r.modelName
                    IN  heap'[store'[r.key]] =
                            [before EXCEPT !.questions[k].results[first].evaluation =
                                [is_correct |-> r.isCorrect,
                                 reasoning |-> IF Truthy(r.reasoning) THEN r.reasoning
                                               ELSE "Manually evaluated by user.",
                                 evaluation_type |-> "manual",
                                 evaluated_by |-> IF Truthy(r.user) THEN r.user ELSE None,
                                 evaluated_at |-> "now"]]
              /\ ( r.kind = "manualEval" /\ r.pc \in {"insertNew", "insertLate", "update"} )
                 => heap'[store'[r.key]].questions = heap[store[r.key]].questions
    ]_vars

C17_Witness ==
    \E p \in Slots :
        /\ Answered(p, "manualEval") /\ req[p].status = 200
        /\ LET set == heap[store[req[p].key]]
               results == set.questions[req[p].questionIndex + 1].results
           IN  /\ Len(set.questions) = 2
               /\ Len(results) = 2
               /\ results[1].model = results[2].model
               /\ results[1].evaluation.evaluation_type = "manual"
               /\ results[2].evaluation.evaluation_type # "manual"

\* The records of the transient store, by id.
TransientRecords == [i \in Ids |-> IF store[i] = 0 THEN NoObj ELSE heap[store[i]]]

Refused(r) == r.kind = "manualEval" /\ r.pc = "done" /\ r.status \in {400, 403, 404, 500}

\* C18: a manual patch answered 400, 403, 404 or 500 has changed no record of
\* the transient store and no row of the table: the answer is given from the
\* start of the request, from its existence check or from its fetch, never
\* after a write, and neither that step nor the steps that lead to the check
\* and the fetch change a record or a row.
C18_RefusedPatchWritesNothing ==
    [][\A p \in Slots :
          /\ ( req'[p] # req[p] /\ Refused(req'[p]) )
             => /\ req[p].pc \in {"idle", "done", "check", "fetch"}
                /\ TransientRecords' = TransientRecords
                /\ db' = db
          /\ ( req'[p] # req[p] /\ req'[p].kind = "manualEval"
               /\ req'[p].pc \in {"check", "fetch"} )
             => /\ TransientRecords' = TransientRecords
                /\ db' = db
    ]_vars

\* Refusals of each kind, on a store and a table that hold a record.
C18_Witness ==
    \E p \in Slots :
        /\ Refused(req[p]) /\ req[p].status = 403
        /\ store[req[p].key] # 0
        /\ \E u \in UuidIds : db[u].present

\* C19: an evaluate-set request on a transient record that already carries a
\* supabaseId does not INSERT another row for it.
C19_NoSecondInsert ==
    dbLast.by = "evaluateSet" /\ dbLast.hadRemoteId => dbLast.op # "insert"

\* The second request on a set answered, and two rows in the table for it.
C19_Witness ==
    \E p \in Slots :
        /\ Answered(p, "evaluateSet") /\ req[p].status = 200 /\ ~req[p].isNew
        /\ dbLast.by = "evaluateSet" /\ dbLast.hadRemoteId
        /\ Cardinality({u \in UuidIds : db[u].present}) = 2

IsBoolean(v) == v \in {JsTrue, JsFalse}

IsString(v) == v \notin {None, Undefined}

\* C20: every Result held in the transient store has an evaluation of one of
\* three shapes: automatic or manual with a boolean is_correct and a string
\* reasoning, or pending_manual with is_correct and reasoning null.
C20_EvaluationShapes ==
    \A i \in Ids :
        store[i] # 0
            => \A k \in 1..Len(heap[store[i]].questions) :
                   \A j \in 1..Len(heap[store[i]].questions[k].results) :
                       LET e == heap[store[i]].questions[k].results[j].evaluation
                       IN  \/ /\ e.evaluation_type \in {"automatic", "manual"}
                              /\ IsBoolean(e.is_correct)
                              /\ IsString(e.reasoning)
                           \/ /\ e.evaluation_type = "pending_manual"
                              /\ e.is_correct = None
                              /\ e.reasoning = None

C20_Witness ==
    \E p \in Slots :
        /\ Answered(p, "manualEval") /\ req[p].status = 200
        /\ req[p].isCorrect = None
        /\ req[p].evaluation.evaluation_type = "manual"
        /\ req[p].evaluation.is_correct = None

\* A Question without the evaluations of its Results.
Frame(q) ==
    [question |-> q.question, referenceAnswer |-> q.referenceAnswer,
     results |-> [j \in 1..Len(q.results) |->
                     [model |-> q.results[j].model, response |-> q.results[j].response]]]

\* C21: no step removes a record of the transient store, and every record's
\* questions only grow at the end: each Question it held keeps its index, its
\* question, its referenceAnswer and the model and response of each Result.
C21_AppendOnly ==
    [][\A i \in Ids :
          store[i] # 0
              => /\ store'[i] # 0
                 /\ LET old == heap[store[i]].questions
                        new == heap'[store'[i]].questions
                    IN  /\ Len(old) <= Len(new)
                        /\ \A k \in 1..Len(old) : Frame(new[k]) = Frame(old[k])
    ]_vars

\* C22: getModelResponse returns a string in every case: the 'not supported'
\* text, with no upstream request, for a short id the registry does not
\* resolve; the trimmed answer on success; and on a failure the error text
\* with the provider's nested message, else the SDK's message, else the
\* error's own.
C22_ResponderReturns ==
    \A p \in Slots :
        req[p].kind = "respond" /\ req[p].pc = "done"
            => LET modelName == req[p].models[1]
                   outcome == req[p].payload[1]
                   error == outcome.error
                   text == req[p].content
               IN  IF modelName \notin DOMAIN AVAILABLE_MODELS
                   THEN /\ text = <<"Model ", modelName,
                                    " not supported via OpenRouter in this configuration.">>
                        /\ req[p].upstreamRequests = 0
                   ELSE /\ req[p].upstreamRequests = 1
                        /\ IF outcome.ok
                           THEN /\ text = Trim(outcome.content)
                                /\ text # <<>> => text[1] # " " /\ text[Len(text)] # " "
                           ELSE text = <<"Error getting response from ", modelName,
                                         " via OpenRouter: ",
                                         IF error.nested # Undefined THEN error.nested
                                         ELSE IF error.inner # Undefined THEN error.inner
                                         ELSE error.message>>

C22_Witness ==
    \E p \in Slots :
        /\ req[p].kind = "respond" /\ req[p].pc = "done"
        /\ req[p].models = <<"claude3">>
        /\ ~req[p].payload[1].ok
        /\ req[p].payload[1].error.nested = Undefined
        /\ req[p].payload[1].error.inner # Undefined
        /\ req[p].content[4] = req[p].payload[1].error.inner

\* C23: evaluateResponse returns the parsed body when the call and the parse
\* succeed, and exactly {is_correct: false, reasoning: 'Error during
\* evaluation.'} when either fails.
C23_JudgeReturns ==
    \A p \in Slots :
        req[p].kind = "judge" /\ req[p].pc = "done"
            => LET outcome == req[p].payload[1]
               IN  IF outcome.stage \in {"call", "parse"}
                   THEN /\ req[p].evaluation.is_correct = JsFalse
                        /\ req[p].evaluation.reasoning = "Error during evaluation."
                   ELSE /\ req[p].evaluation.is_correct = outcome.body.is_correct
                        /\ req[p].evaluation.reasoning = outcome.body.reasoning

C23_Witness ==
    \E p \in Slots :
        /\ req[p].kind = "judge" /\ req[p].pc = "done"
        /\ req[p].payload[1].stage = "parse"
        /\ req[p].evaluation.reasoning = "Error during evaluation."

\* C24: the prompt is the template with the question, the reference answer and
\* the model's response each verbatim in its own slot, and no placeholder of
\* the template left.
C24_PromptVerbatim ==
    \A p \in Slots :
        req[p].kind = "judge" /\ req[p].pc \in {"call", "done"}
            => req[p].content =
                   <<evaluatorPromptTemplate[1]>> \o req[p].questions[1].question
                   \o <<evaluatorPromptTemplate[3]>> \o req[p].questions[1].referenceAnswer
                   \o <<evaluatorPromptTemplate[5]>> \o req[p].results[1]
                   \o <<evaluatorPromptTemplate[7]>>

\* A question that names a placeholder takes the reference answer, and the
\* template's own slot stays unfilled.
C24_Witness ==
    \E p \in Slots :
        /\ req[p].kind = "judge" /\ req[p].pc = "done"
        /\ req[p].questions[1].question = <<"What is ", "{reference_answer}", "?">>
        /\ req[p].questions[1].referenceAnswer = <<"2", "+", "2">>
        /\ req[p].results[1] = <<"2", "+", "2">>
        /\ SubSeq(req[p].content, 2, 6) = <<"What is ", "2", "+", "2", "?">>
        /\ IndexOf(req[p].content, "{reference_answer}") # 0

\* A request whose verifyAuth has continued.
Continued(r) == r.kind = "auth" /\ r.pc \in {"require", "done"}

\* C25: verifyAuth calls next exactly once, with req.user the verified user
\* only for a bearer token of at least 20 characters whose verification
\* answered with a user before the timeout, and null in every other case; a
\* shorter token triggers no verification; and a request whose verification is
\* pending always proceeds, if only by the timeout.
C25_VerifyAuthContinues ==
    /\ [](\A p \in Slots :
             LET r == req[p]
             IN  r.kind = "auth"
                 => /\ r.nexts = IF Continued(r) THEN 1 ELSE 0
                    /\ r.remoteCalls = IF r.header.bearer /\ r.header.long THEN 1 ELSE 0
                    /\ Continued(r)
                       => r.user = IF /\ r.header.bearer /\ r.header.long
                                      /\ r.settled = "answered"
                                      /\ r.header.owner # None
                                   THEN r.header.owner
                                   ELSE None)
    /\ \A p \in Slots :
          (req[p].kind = "auth" /\ req[p].pc = "verifying") ~> Continued(req[p])

C25_Witness ==
    \E p \in Slots :
        /\ Continued(req[p]) /\ req[p].guard = "verifyAuth"
        /\ req[p].settled = "timeout"
        /\ req[p].header.owner = "userA"
        /\ req[p].user = None /\ req[p].handlerRuns = 1

C27_TransientPatchesKeepBoth ==
    (BothPatched /\ ~IsUuidFormat(req[1].key))
        => /\ Shows(heap[store[req[1].key]], Verdict(req[1]))
           /\ Shows(heap[store[req[1].key]], Verdict(req[2]))

\* The two overlapped: both inserts went through, and the row inserted last
\* was prepared before the other patch ran.
C27_Witness ==
    /\ BothPatched
    /\ ~IsUuidFormat(req[1].key)
    /\ \A p \in Slots : req[p].via = "transient" /\ req[p].probe = "nothing"
    /\ Shows(heap[store[req[1].key]], Verdict(req[1]))
    /\ Shows(heap[store[req[1].key]], Verdict(req[2]))
    /\ \A p \in Slots : req[p].writeFailures = 0
    /\ dbLast.op = "insert" /\ dbLast.by = "manualEval"
    /\ \E p \in Slots : ~Shows(db[dbLast.key], Verdict(req[p]))

\* C28 as stated: a manual verdict never reverts. Once a patch has answered
\* 200 for a Result, GET /sets/:id shows the verdict there, type manual,
\* whatever patches of other Results of the record followed and whichever
\* writes to the table failed.
C28_VerdictNeverReverts ==
    \A p \in Slots :
        (Answered(p, "getSet") /\ req[p].status = 200)
            => \A v \in verdicts : v.id = req[p].key => Shows(req[p].body, v)

\* C28 amended: a manual verdict on a record addressed by an id that is not
\* UUID-shaped never reverts: GET /sets/:id keeps showing it after any later
\* patches of other Results, also when writes to the table fail.
C28_TransientVerdictStays ==
    \A p \in Slots :
        Answered(p, "getSet")
            => \A v \in verdicts :
                  (v.id = req[p].key /\ ~IsUuidFormat(v.id))
                      => /\ req[p].status = 200
                         /\ Shows(req[p].body, v)
                         /\ Shows(heap[store[v.id]], v)

\* Two verdicts on one record, read back, and no insert ever went through.
C28_Witness ==
    \E p \in Slots :
        /\ Answered(p, "getSet") /\ req[p].status = 200
        /\ ~IsUuidFormat(req[p].key)
        /\ req[p].body.supabaseId = NoId
        /\ \E v, w \in verdicts :
              /\ v.id = req[p].key /\ w.id = req[p].key
              /\ v.modelName # w.modelName
              /\ v.reasoning = "Looks right."
              /\ Shows(req[p].body, v) /\ Shows(req[p].body, w)

\* C29: read isolation. A record whose owner is not null is returned by a read
\* endpoint only to the requester whose identity is that owner; a record
\* returned to another identity or to an anonymous caller has a null owner.
C29_ReadIsolation ==
    \A p \in Slots :
        (Answered(p, "getSet") /\ req[p].status = 200 /\ req[p].body.user_id # None)
            => req[p].user = req[p].body.user_id

\* GET /sets/:id hands the record of userA to userB, and to a caller without
\* identity.
C29_Witness ==
    \E p \in Slots :
        /\ Answered(p, "getSet") /\ req[p].status = 200
        /\ req[p].body.user_id = "userA"
        /\ req[p].user = "userB"
        /\ Len(req[p].body.questions) > 0

\* C30: an evaluate-set request that ends with another status than 200 leaves
\* the transient store as it found it: it created no set, and the set it named
\* has the questions it had, also when the failure comes after questions of
\* the batch were processed.
C30_FailureLeavesStore ==
    \A p \in Slots :
        (Answered(p, "evaluateSet") /\ req[p].status # 200)
            => /\ ~req[p].isNew
               /\ req[p].key # NoId
                     => Len(heap[store[req[p].key]].questions) = req[p].prior

\* A batch whose second entry has no question text: answered 500 with the set
\* created and the first question appended.
C30_Witness ==
    \E p \in Slots :
        /\ Answered(p, "evaluateSet") /\ req[p].status = 500
        /\ req[p].isNew
        /\ store[req[p].key] # 0
        /\ Len(heap[store[req[p].key]].questions) = 1
        /\ req[p].responderCalls > 0

====
